---------------------------- MODULE Spec2Model ----------------------------
(***************************************************************************)
(* A model of rdfox_runner: RDFoxRunner (run_rdfox.py) driving a           *)
(* CommandRunner (command_runner.py).  Three parties take steps:           *)
(*   - the caller, running RDFoxRunner.start() and RDFoxRunner.stop();     *)
(*   - the output-reading thread, running output_reader(), which calls     *)
(*     RDFoxRunner._check_for_errors on every line;                        *)
(*   - the external process, which writes its output, may close its        *)
(*     output, and exits by itself or when signalled.                      *)
(* A line of output is a record [indent, head, tail]: whether it begins    *)
(* with a space, the text the patterns look at, and the rest of the line.  *)
(* Under RDFoxRunner the output is taken to be valid UTF-8 and             *)
(* RDFoxEndpoint.connect to return: the callback raises nothing in the     *)
(* reader thread.                                                          *)
(* Spec follows one runner through start() and stop(); LifeSpec adds the   *)
(* calls made out of turn and the environment override; ClassifierSpec     *)
(* runs the reader and the classifier alone over longer outputs; StageSpec *)
(* runs start() up to the launch over the input files a caller may pass;   *)
(* ContextSpec runs a CommandRunner by itself as a context manager, with   *)
(* its timeout and its two waits, over output that may not decode;         *)
(* ConstructSpec runs the constructor of RDFoxRunner over its arguments;   *)
(* RunSpec runs run_in_dir (run_in_dir.py) from its call to its end.       *)
(***************************************************************************)
EXTENDS Integers, Sequences, FiniteSets, TLC

VARIABLES
    wait,            \* RDFoxRunner.wait: "endpoint", "exit" or "nothing"
    explicitDir,     \* TRUE iff a working_dir was passed to the constructor
    keepEnv,         \* TRUE iff RDFOX_RUNNER_KEEP_WORKING_DIR was set at construction
    inputFiles,      \* RDFoxRunner.input_files, in order: <<[target, source], ...>>
    script,          \* the lines the process writes to stdout/stderr
    callerPc,        \* where the caller is in start() / stop()
    startResult,     \* "pending", "returned", "raised" (critical), "failed" (launch)
    stopResult,      \* "pending", "returned", "raised" (critical), "typeError"
    stopTrace,       \* the steps the current stop() has performed so far, in order
    stopCount,       \* how many times stop() has been called
    launches,        \* how many processes this runner has launched (Popen calls)
    cleaned,         \* cleanup_files() has been called and has returned
    raisedMsg,       \* the message of the last error raise_for_errors() raised, or ""
    workingDir,      \* CommandRunner.working_dir: "None", "tmp" or "user"
    dirs,            \* the directories that exist on disk
    fs,              \* what the working directory holds: relative path -> node
    proc,            \* "none" (no Popen), "running", "exited"
    exitStatus,      \* {} while the process runs, {code} once it has exited
    returncode,      \* Popen.returncode: {} for None, {code} once reaped
    stdinOpen,       \* the caller's end of the process's stdin is open
    stdoutOpen,      \* the process's end of its output pipe is open
    termSent,        \* SIGTERM has been delivered to the process
    killSent,        \* SIGKILL has been delivered to the process
    readerPc,        \* "none", "read" (in readline), "act" (in callback), "done"
    readPos,         \* how many lines of script the reader has taken
    todo,            \* the side effects of the current line still to run
    multiline,       \* RDFoxRunner._multiline_error
    critical,        \* RDFoxRunner._critical_error
    criticalMsg,     \* RDFoxRunner._critical_error_message
    errors,          \* RDFoxRunner.errors
    stoppedOnError,  \* RDFoxRunner.stopped_on_error
    endpointReady,   \* RDFoxRunner._endpoint_ready: "undefined", "None", "clear", "set"
    server,          \* RDFoxEndpoint.server: "None" or the url connected to
    quitLog,         \* who has called send_quit, and whether the write went through
    waitArg,         \* the wait argument of RDFoxRunner(...): "None" or a string
    scriptArg,       \* the script argument: [isList, parts], each part a text
    filesArg,        \* the input_files argument, in order: <<[target, source], ...>>
    timeout,         \* CommandRunner.timeout: "None" or "finite"
    waitBeforeEnter, \* CommandRunner.wait_before_enter
    waitBeforeExit,  \* CommandRunner.wait_before_exit
    logged,          \* the records of command_runner's logger at level ERROR, in order
    delivered        \* the lines output_reader has passed to the callback, in order

vars == <<wait, explicitDir, keepEnv, inputFiles, script, callerPc, startResult,
          stopResult, stopTrace, stopCount, launches, cleaned, raisedMsg, workingDir,
          dirs, fs, proc, exitStatus, returncode, stdinOpen, stdoutOpen, termSent,
          killSent, readerPc, readPos, todo, multiline, critical, criticalMsg,
          errors, stoppedOnError, endpointReady, server, quitLog, waitArg,
          scriptArg, filesArg, timeout, waitBeforeEnter, waitBeforeExit, logged,
          delivered>>

configVars == <<wait, explicitDir, keepEnv, inputFiles, script, waitArg, scriptArg,
                filesArg, timeout, waitBeforeEnter, waitBeforeExit>>
sessionVars == <<stopCount, launches, cleaned, raisedMsg, logged>>
callerVars == <<callerPc, startResult, stopResult, stopTrace, sessionVars>>
dirVars == <<workingDir, dirs, fs>>
procVars == <<proc, exitStatus, returncode, stdinOpen, stdoutOpen, termSent, killSent>>
readerVars == <<readerPc, readPos, todo, delivered>>
classifierVars == <<multiline, critical, criticalMsg, errors>>

-----------------------------------------------------------------------------
(* Bounds *)

\* The longest output the process writes.
MaxLines == 2

\* How many times the caller calls stop().
MaxStops == 2

\* The longest output the process writes, where the runner's whole life is
\* followed.
MaxLifeLines == 1

\* The most input files the caller passes, where the input files vary.
MaxInputs == 2

\* The longest output, where only the reader and the classifier run.
MaxBlockLines == 4

-----------------------------------------------------------------------------
(* Lines and the patterns of run_rdfox.py *)

EndpointHead == "The REST endpoint was successfully started at port number/service name "
ErrorHead == "Error: "
MultilineHead == "An error occurred while executing the command:"
CriticalHead == "A critical error occurred while running RDFox:"
StopHead == "Stopping shell evaluation due to 'on-error' policy"
OutOfMemoryText == "The RDFox instance has run out of memory."

EndpointLine == [indent |-> FALSE, head |-> EndpointHead, tail |-> "12110"]
ErrorLine == [indent |-> FALSE, head |-> ErrorHead, tail |-> "no such file"]
BlockStartLine == [indent |-> FALSE, head |-> MultilineHead, tail |-> ""]
ContinuationLine == [indent |-> TRUE, head |-> "Unknown prefix", tail |-> ""]
CriticalLine == [indent |-> FALSE, head |-> CriticalHead, tail |-> ""]
StopLine == [indent |-> FALSE, head |-> StopHead, tail |-> ""]
PlainLine == [indent |-> FALSE, head |-> "Data store created", tail |-> ""]
OutOfMemoryLine == [indent |-> TRUE, head |-> OutOfMemoryText, tail |-> ""]

\* The lines the process of this model may write.
ProcLines == {EndpointLine, ErrorLine, BlockStartLine, ContinuationLine,
              CriticalLine, StopLine, PlainLine}

\* The line as the callback receives it (output_reader has removed trailing
\* whitespace only).
Raw(line) == (IF line.indent THEN "    " ELSE "") \o line.head \o line.tail

\* line.strip()
Strip(line) == line.head \o line.tail

\* line.startswith(" ")
StartsWithSpace(line) == line.indent

\* ENDPOINT_PATTERN.match(line): anchored at the start, the port is (\S+).
MatchesEndpoint(line) == ~line.indent /\ line.head = EndpointHead /\ line.tail # ""

\* ERROR_PATTERN.match(line)
MatchesError(line) == ~line.indent /\ line.head = ErrorHead

\* MULTILINE_ERROR_PATTERN.match(line)
MatchesMultiline(line) == ~line.indent /\ line.head = MultilineHead

\* line == "A critical error occurred while running RDFox:"
IsCriticalMarker(line) == ~line.indent /\ line.head = CriticalHead /\ line.tail = ""

\* line.startswith("Stopping shell evaluation due to 'on-error' policy")
IsStopLine(line) == ~line.indent /\ line.head = StopHead

\* "\n".join(lines)
RECURSIVE JoinLines(_)
JoinLines(lines) ==
    IF lines = <<>> THEN ""
    ELSE IF Len(lines) = 1 THEN lines[1]
    ELSE lines[1] \o "\n" \o JoinLines(Tail(lines))


-----------------------------------------------------------------------------
(* RDFoxRunner._check_for_errors: what it does to the runner's own fields.  *)
(* A classifier state is [multiline, critical, criticalMsg, errors, event]; *)
(* multiline is [active, buf]: False is (FALSE, <<>>), True is (TRUE, <<>>) *)
(* and a list is (TRUE, the list).  event names the branch whose remaining  *)
(* effects reach outside these fields ("endpoint", "stop") or "none".       *)

NoBlock == [active |-> FALSE, buf |-> <<>>]

\* Faulty variant: the line is compared with the out-of-memory text untrimmed.
AccumulateUntrimmed(st, line) ==
    LET oom == Raw(line) = OutOfMemoryText
    IN [st EXCEPT !.multiline = [active |-> TRUE, buf |-> Append(st.multiline.buf, Strip(line))],
                  !.criticalMsg = IF oom THEN Strip(line) ELSE @,
                  !.critical = IF oom THEN TRUE ELSE @,
                  !.event = "none"]

\* Faulty variant: the line is added to the block with its indentation.
AccumulateRaw(st, line) ==
    LET oom == Strip(line) = OutOfMemoryText
    IN [st EXCEPT !.multiline = [active |-> TRUE, buf |-> Append(st.multiline.buf, Raw(line))],
                  !.criticalMsg = IF oom THEN Strip(line) ELSE @,
                  !.critical = IF oom THEN TRUE ELSE @,
                  !.event = "none"]

\* the indented line of an open block: lines 152-162
Accumulate(st, line) ==
    LET oom == Strip(line) = OutOfMemoryText
    IN [st EXCEPT !.multiline = [active |-> TRUE, buf |-> Append(st.multiline.buf, Strip(line))],
                  !.criticalMsg = IF oom THEN Strip(line) ELSE @,
                  !.critical = IF oom THEN TRUE ELSE @,
                  !.event = "none"]

\* a line that is not indented ends the block: lines 163-169
CloseBlock(st) ==
    LET msg == JoinLines(st.multiline.buf)
    IN [st EXCEPT !.errors = IF st.multiline.buf # <<>> /\ msg # ""
                             THEN Append(@, msg) ELSE @,
                  !.multiline = NoBlock]

\* Faulty variant: the critical message is recorded trimmed.
CaptureCriticalTrimmed(st, line) ==
    [st EXCEPT !.criticalMsg = Strip(line), !.event = "none"]

\* the line after the critical marker: lines 171-174
CaptureCritical(st, line) ==
    [st EXCEPT !.criticalMsg = Raw(line), !.event = "none"]

\* Faulty variant: a single-line error is also taken as a request to stop.
ClassifyFreshStopping(st, line) ==
    IF MatchesEndpoint(line) THEN [st EXCEPT !.event = "endpoint"]
    ELSE IF MatchesError(line) THEN [st EXCEPT !.errors = Append(@, Raw(line)), !.event = "stop"]
    ELSE IF MatchesMultiline(line)
        THEN [st EXCEPT !.multiline = [active |-> TRUE, buf |-> <<>>], !.event = "none"]
    ELSE IF IsCriticalMarker(line) THEN [st EXCEPT !.critical = TRUE, !.event = "none"]
    ELSE IF IsStopLine(line) THEN [st EXCEPT !.event = "stop"]
    ELSE [st EXCEPT !.event = "none"]

\* Faulty variant: a single-line error is put at the head of the error log.
ClassifyFreshPrepending(st, line) ==
    IF MatchesEndpoint(line) THEN [st EXCEPT !.event = "endpoint"]
    ELSE IF MatchesError(line) THEN [st EXCEPT !.errors = <<Raw(line)>> \o @, !.event = "none"]
    ELSE IF MatchesMultiline(line)
        THEN [st EXCEPT !.multiline = [active |-> TRUE, buf |-> <<>>], !.event = "none"]
    ELSE IF IsCriticalMarker(line) THEN [st EXCEPT !.critical = TRUE, !.event = "none"]
    ELSE IF IsStopLine(line) THEN [st EXCEPT !.event = "stop"]
    ELSE [st EXCEPT !.event = "none"]

\* the chain of patterns: lines 176-203
ClassifyFresh(st, line) ==
    IF MatchesEndpoint(line) THEN [st EXCEPT !.event = "endpoint"]
    ELSE IF MatchesError(line) THEN [st EXCEPT !.errors = Append(@, Raw(line)), !.event = "none"]
    ELSE IF MatchesMultiline(line)
        THEN [st EXCEPT !.multiline = [active |-> TRUE, buf |-> <<>>], !.event = "none"]
    ELSE IF IsCriticalMarker(line) THEN [st EXCEPT !.critical = TRUE, !.event = "none"]
    ELSE IF IsStopLine(line) THEN [st EXCEPT !.event = "stop"]
    ELSE [st EXCEPT !.event = "none"]

\* Faulty variant: the line that ends an open block is consumed by the block.
CheckForErrorsConsuming(st, line) ==
    IF st.multiline.active
    THEN IF StartsWithSpace(line) THEN Accumulate(st, line)
         ELSE [CloseBlock(st) EXCEPT !.event = "none"]
    ELSE IF st.critical /\ st.criticalMsg = "" THEN CaptureCritical(st, line)
    ELSE ClassifyFresh(st, line)

CheckForErrors(st, line) ==
    IF st.multiline.active
    THEN IF StartsWithSpace(line) THEN Accumulate(st, line)
         ELSE ClassifyFresh(CloseBlock(st), line)
    ELSE IF st.critical /\ st.criticalMsg = "" THEN CaptureCritical(st, line)
    ELSE ClassifyFresh(st, line)

\* the classifier state a new RDFoxRunner has: lines 139-146
InitClassifier ==
    [multiline |-> NoBlock, critical |-> FALSE, criticalMsg |-> "",
     errors |-> <<>>, event |-> "none"]

\* the classifier state after the lines of a sequence, in order
RECURSIVE ClassifierAfter(_)
ClassifierAfter(lines) ==
    IF lines = <<>> THEN InitClassifier
    ELSE CheckForErrors(ClassifierAfter(SubSeq(lines, 1, Len(lines) - 1)), lines[Len(lines)])

\* Faulty variant: the Event is set before the endpoint is connected.
EndpointStepsSignalFirst == <<"signal", "connect">>

\* Faulty variant: the readiness line sets the Event and connects nothing.
EndpointStepsSignalOnly == <<"signal">>

\* The effects of the endpoint branch, in order: lines 178-183
EndpointSteps == <<"connect", "signal">>

\* Faulty variant: the Event is set before stopped_on_error.
StopStepsSignalFirst == <<"signal", "flag", "quit">>

\* The effects of the stop-requested branch, in order: lines 199-203
StopSteps == <<"flag", "quit", "signal">>

EventSteps(event) ==
    CASE event = "endpoint" -> EndpointSteps
      [] event = "stop" -> StopSteps
      [] OTHER -> <<>>

\* Faulty variant: a set() that only wakes a caller already blocked in wait().
EventSetLossy(e) == IF callerPc = "gateBlocked" THEN "set" ELSE e

\* Faulty variant: a set() that flips the flag.
EventSetToggle(e) == IF e = "set" THEN "clear" ELSE "set"

\* threading.Event.set()
EventSet(e) == "set"

\* send_quit: lines 244-252.  The write goes through only to a process that
\* still runs, over a stdin that stop() has not closed; every failure is
\* swallowed.
QuitResult == IF proc = "running" /\ stdinOpen THEN "written" ELSE "failed"

-----------------------------------------------------------------------------
(* The working directory and copy_files (command_runner.py)                *)
(* A path relative to the working directory is a sequence of names; fs     *)
(* maps every path that exists to its node, a directory or a file with its *)
(* content.  A source is a file on disk (with its base name), a directory  *)
(* on disk (with its tree, relative paths to nodes) or a text stream.      *)

IsPrefix(s, t) == Len(s) <= Len(t) /\ SubSeq(t, 1, Len(s)) = s

DirNode == [kind |-> "dir", data |-> ""]
FileNode(content) == [kind |-> "file", data |-> content]

EmptyTree == [p \in {} |-> DirNode]

FileSource(name, content) ==
    [type |-> "file", name |-> name, data |-> content, tree |-> EmptyTree]
DirSource(tree) == [type |-> "dir", name |-> "", data |-> "", tree |-> tree]
TextSource(content) == [type |-> "text", name |-> "", data |-> content, tree |-> EmptyTree]

\* MASTER_KEY
MasterKey == "__master.rdfox"

\* dst.exists(), dst.is_dir()
Exists(f, p) == p \in DOMAIN f
IsDir(f, p) == p = <<>> \/ (Exists(f, p) /\ f[p].kind = "dir")

Parent(p) == SubSeq(p, 1, Len(p) - 1)

\* the outcome of a copy: the directory afterwards, and whether it raised
Done(f) == [fs |-> f, ok |-> TRUE]
Raised(f) == [fs |-> f, ok |-> FALSE]

\* shutil.rmtree(p) on a directory
RemoveTree(f, p) == [q \in {r \in DOMAIN f : ~IsPrefix(p, r)} |-> f[q]]

\* mkdir(parents=True, exist_ok=True): raises when p or a parent is a file.
MakeDirs(f, p) ==
    LET chain == {SubSeq(p, 1, k) : k \in 1..Len(p)}
    IN IF \E q \in chain : Exists(f, q) /\ ~IsDir(f, q) THEN Raised(f)
       ELSE Done([q \in chain |-> DirNode] @@ f)

\* open(p, "w") and write: raises on a directory.
WriteFile(f, p, content) ==
    IF IsDir(f, p) THEN Raised(f) ELSE Done((p :> FileNode(content)) @@ f)

\* shutil.copytree(src, dst): makedirs(dst), which raises if dst exists or a
\* parent is a file, then the tree below it.
CopyTree(f, tree, dst) ==
    LET made == MakeDirs(f, dst)
    IN IF Exists(f, dst) \/ ~made.ok THEN Raised(f)
       ELSE Done([q \in {dst \o r : r \in DOMAIN tree} |->
                     tree[SubSeq(q, Len(dst) + 1, Len(q))]] @@ made.fs)

\* Faulty variant: a directory source is merged into an existing destination.
CopyDirMerging(f, src, dst) ==
    IF Exists(f, dst) /\ ~IsDir(f, dst) THEN Raised(f)
    ELSE LET made == MakeDirs(f, dst)
         IN IF ~made.ok THEN Raised(f)
            ELSE Done([q \in {dst \o r : r \in DOMAIN src.tree} |->
                          src.tree[SubSeq(q, Len(dst) + 1, Len(q))]] @@ made.fs)

\* copy_files, lines 244-248: a directory source replaces the destination;
\* rmtree raises on a destination that is a file.
CopyDir(f, src, dst) ==
    IF Exists(f, dst)
    THEN IF IsDir(f, dst) THEN CopyTree(RemoveTree(f, dst), src.tree, dst) ELSE Raised(f)
    ELSE CopyTree(f, src.tree, dst)

\* copy_files, lines 249-252: shutil.copy writes dst, or dst/name when dst
\* is a directory.
CopyFile(f, src, dst) ==
    LET made == MakeDirs(f, Parent(dst))
    IN IF ~made.ok THEN Raised(f)
       ELSE IF IsDir(made.fs, dst)
            THEN WriteFile(made.fs, Append(dst, src.name), src.data)
            ELSE WriteFile(made.fs, dst, src.data)

\* copy_files, lines 253-257: the text read from the stream is written.
CopyText(f, src, dst) ==
    LET made == MakeDirs(f, Parent(dst))
    IN IF ~made.ok THEN Raised(f) ELSE WriteFile(made.fs, dst, src.data)

\* copy_files(src, dst)
CopyFiles(f, src, dst) ==
    CASE src.type = "dir" -> CopyDir(f, src, dst)
      [] src.type = "file" -> CopyFile(f, src, dst)
      [] OTHER -> CopyText(f, src, dst)

\* the loop of setup_files, lines 120-121: it ends at the first copy that raises
RECURSIVE StageAll(_, _)
StageAll(f, entries) ==
    IF entries = <<>> THEN Done(f)
    ELSE LET r == CopyFiles(f, Head(entries).source, Head(entries).target)
         IN IF r.ok THEN StageAll(r.fs, Tail(entries)) ELSE r

\* CommandRunner.files(path) read back: the content of the file it names,
\* {} when working_dir is None or no such file exists.
FileContents(path) ==
    IF workingDir # "None" /\ Exists(fs, path) /\ fs[path].kind = "file"
    THEN {fs[path].data} ELSE {}

-----------------------------------------------------------------------------
(* Initial state: the runner just constructed *)

RECURSIVE SeqsUpTo(_, _)
SeqsUpTo(S, n) ==
    IF n = 0 THEN {<<>>}
    ELSE LET shorter == SeqsUpTo(S, n - 1)
         IN shorter \cup {Append(q, x) : q \in {r \in shorter : Len(r) = n - 1}, x \in S}

\* The text of an RDFox script is a sequence of pieces: words, " " and "\n".
\* "endpoint start"
EndpointStartText == <<"endpoint", " ", "start">>

\* pattern in text
Contains(text, pattern) ==
    \E k \in 0..(Len(text) - Len(pattern)) : SubSeq(text, k + 1, k + Len(pattern)) = pattern

\* Faulty variant: the elements of a list are joined with a space.
RECURSIVE JoinTextsWithSpace(_)
JoinTextsWithSpace(parts) ==
    IF parts = <<>> THEN <<>>
    ELSE IF Len(parts) = 1 THEN parts[1]
    ELSE parts[1] \o <<" ">> \o JoinTextsWithSpace(Tail(parts))

\* "\n".join(script)
RECURSIVE JoinTexts(_)
JoinTexts(parts) ==
    IF parts = <<>> THEN <<>>
    ELSE IF Len(parts) = 1 THEN parts[1]
    ELSE parts[1] \o <<"\n">> \o JoinTexts(Tail(parts))

\* the characters of a text, as StringIO(script) holds them
RECURSIVE Flatten(_)
Flatten(text) == IF text = <<>> THEN "" ELSE text[1] \o Flatten(Tail(text))

\* The script argument: a string (one text) or a list of strings.
StringArg(text) == [isList |-> FALSE, parts |-> <<text>>]
ListArg(texts) == [isList |-> TRUE, parts |-> texts]

\* RDFoxRunner.__init__, lines 109-110: a script that is not a string is
\* joined, line by line.
ScriptText(arg) == IF arg.isList THEN JoinTexts(arg.parts) ELSE arg.parts[1]

\* RDFoxRunner.__init__, lines 132-135: the master script, a text stream, is
\* added to the caller's input files.
WithMaster(userFiles, text) ==
    userFiles \o <<[target |-> <<MasterKey>>, source |-> TextSource(Flatten(text))]>>

\* The input files of a runner whose script is "quit".
RunnerInputs(userFiles) == WithMaster(userFiles, <<"quit">>)

\* The arguments a runner with the script "quit" and an explicit policy was
\* constructed with.
QuitArguments ==
    /\ waitArg = wait
    /\ scriptArg = StringArg(<<"quit">>)
    /\ filesArg = SubSeq(inputFiles, 1, Len(inputFiles) - 1)

\* The CommandRunner that RDFoxRunner.start() creates, lines 215-219: no
\* timeout and no wait in __enter__ or __exit__; nothing logged or delivered.
InnerRunner ==
    /\ timeout = "None"
    /\ waitBeforeEnter = FALSE
    /\ waitBeforeExit = FALSE
    /\ logged = <<>>
    /\ delivered = <<>>

\* The runner just constructed, over the constructor's parameters, the
\* values of the environment override and the outputs of up to n lines.
Constructed(n, overrides) ==
    /\ wait \in {"endpoint", "exit", "nothing"}
    /\ explicitDir \in BOOLEAN
    /\ keepEnv \in overrides
    /\ inputFiles = RunnerInputs(<<[target |-> <<"a.txt">>, source |-> TextSource("hello")]>>)
    /\ script \in SeqsUpTo(ProcLines, n)
    /\ callerPc = "init"
    /\ startResult = "pending"
    /\ stopResult = "pending"
    /\ stopTrace = <<>>
    /\ stopCount = 0
    /\ launches = 0
    /\ cleaned = FALSE
    /\ raisedMsg = ""
    /\ workingDir = IF explicitDir THEN "user" ELSE "None"
    /\ dirs = {}
    /\ fs = EmptyTree
    /\ proc = "none"
    /\ exitStatus = {}
    /\ returncode = {}
    /\ stdinOpen = FALSE
    /\ stdoutOpen = FALSE
    /\ termSent = FALSE
    /\ killSent = FALSE
    /\ readerPc = "none"
    /\ readPos = 0
    /\ todo = <<>>
    /\ multiline = InitClassifier.multiline
    /\ critical = InitClassifier.critical
    /\ criticalMsg = InitClassifier.criticalMsg
    /\ errors = InitClassifier.errors
    /\ stoppedOnError = FALSE
    /\ endpointReady = "undefined"
    /\ server = "None"
    /\ quitLog = {}
    /\ QuitArguments
    /\ InnerRunner

\* RDFOX_RUNNER_KEEP_WORKING_DIR is not set.
Init == Constructed(MaxLines, {FALSE})

-----------------------------------------------------------------------------
(* RDFoxRunner.start() and the CommandRunner calls it makes *)

\* start(), lines 210-223 and 230: the CommandRunner is created, and the
\* readiness Event before the runner is started.
StartCreate ==
    /\ callerPc = "init"
    /\ callerPc' = "setup"
    /\ endpointReady' = IF wait = "endpoint" THEN "clear" ELSE "None"
    /\ UNCHANGED <<configVars, sessionVars, startResult, stopResult, stopTrace, dirVars, procVars,
                   readerVars, classifierVars, stoppedOnError, server, quitLog>>

\* CommandRunner.setup_files: the working directory is created if need be
\* and the input files are copied into it, in the mapping's order.  A copy
\* that raises ends start() before anything is launched.
SetupFiles ==
    /\ callerPc = "setup"
    /\ workingDir' = IF workingDir = "None" THEN "tmp" ELSE workingDir
    /\ dirs' = dirs \cup {workingDir'}
    /\ LET staged == StageAll(fs, inputFiles)
       IN /\ fs' = staged.fs
          /\ callerPc' = IF staged.ok THEN "launch" ELSE "started"
          /\ startResult' = IF staged.ok THEN startResult ELSE "ioError"
    /\ UNCHANGED <<configVars, sessionVars, stopResult, stopTrace, procVars, readerVars,
                   classifierVars, stoppedOnError, endpointReady, server, quitLog>>

\* Where start() goes on once CommandRunner.start() has returned.
AfterLaunch ==
    CASE wait = "endpoint" -> "gateWait"
      [] wait = "exit" -> "waitExit"
      [] OTHER -> "started"

\* CommandRunner.start_subprocess: Popen, then the output thread is started.
\* All of the process's output is in the pipe from the start: what the
\* reader sees of it depends only on when the reader takes its steps.
StartSubprocess ==
    /\ callerPc = "launch"
    /\ callerPc' = AfterLaunch
    /\ startResult' = IF wait = "nothing" THEN "returned" ELSE startResult
    /\ proc' = "running"
    /\ stdinOpen' = TRUE
    /\ stdoutOpen' = TRUE
    /\ readerPc' = "read"
    /\ launches' = launches + 1
    /\ UNCHANGED <<configVars, stopCount, cleaned, raisedMsg, stopResult, stopTrace, dirVars,
                   exitStatus, returncode,
                   termSent, killSent, readPos, todo, classifierVars, stoppedOnError,
                   endpointReady, server, quitLog, logged, delivered>>

\* Faulty variant: the launch raises after the process handle and the output
\* thread exist.
StartSubprocessFailsLate ==
    /\ callerPc = "launch"
    /\ callerPc' = "started"
    /\ startResult' = "failed"
    /\ proc' = "running"
    /\ stdinOpen' = TRUE
    /\ stdoutOpen' = TRUE
    /\ readerPc' = "read"
    /\ UNCHANGED <<configVars, sessionVars, stopResult, stopTrace, dirVars, exitStatus,
                   returncode, termSent, killSent, readPos, todo, delivered,
                   classifierVars, stoppedOnError, endpointReady, server, quitLog>>

\* Popen raises (no such executable): start() raises with no process and no
\* output thread.
StartSubprocessFails ==
    /\ callerPc = "launch"
    /\ callerPc' = "started"
    /\ startResult' = "failed"
    /\ UNCHANGED <<configVars, sessionVars, stopResult, stopTrace, dirVars, procVars, readerVars,
                   classifierVars, stoppedOnError, endpointReady, server, quitLog>>

\* self._endpoint_ready.wait(): returns at once when the flag is set,
\* blocks otherwise.
GateWaitEnter ==
    /\ callerPc = "gateWait"
    /\ callerPc' = IF endpointReady = "set" THEN "startCheck" ELSE "gateBlocked"
    /\ UNCHANGED <<configVars, sessionVars, startResult, stopResult, stopTrace, dirVars, procVars,
                   readerVars, classifierVars, stoppedOnError, endpointReady, server,
                   quitLog>>

\* the blocked wait() returns once the flag is set.
GateWake ==
    /\ callerPc = "gateBlocked"
    /\ endpointReady = "set"
    /\ callerPc' = "startCheck"
    /\ UNCHANGED <<configVars, sessionVars, startResult, stopResult, stopTrace, dirVars, procVars,
                   readerVars, classifierVars, stoppedOnError, endpointReady, server,
                   quitLog>>

\* CommandRunner.wait() with timeout None: Popen.wait() returns when the
\* process has exited, and sets returncode.
WaitForExit ==
    /\ callerPc = "waitExit"
    /\ exitStatus # {}
    /\ returncode' = exitStatus
    /\ callerPc' = "startCheck"
    /\ UNCHANGED <<configVars, sessionVars, startResult, stopResult, stopTrace, dirVars, proc,
                   exitStatus, stdinOpen, stdoutOpen, termSent, killSent, readerVars,
                   classifierVars, stoppedOnError, endpointReady, server, quitLog>>

\* Faulty variant: a logged error is enough for raise_for_errors to raise.
RaiseForAnyError == IF critical \/ errors # <<>> THEN "raised" ELSE "returned"

\* raise_for_errors(): whether it raises
RaiseForErrors == IF critical THEN "raised" ELSE "returned"

\* raise_for_errors(), line 272: the message of the RuntimeError
RaiseMessage == "Critical RDFox error: " \o criticalMsg

\* the message a call of raise_for_errors() leaves with the caller
Raise == IF RaiseForErrors = "raised" THEN RaiseMessage ELSE raisedMsg

\* the raise_for_errors() that ends start() under "endpoint" and "exit".
StartCheck ==
    /\ callerPc = "startCheck"
    /\ startResult' = RaiseForErrors
    /\ raisedMsg' = Raise
    /\ callerPc' = "started"
    /\ UNCHANGED <<configVars, stopCount, launches, cleaned, stopResult, stopTrace,
                   dirVars, procVars, readerVars,
                   classifierVars, stoppedOnError, endpointReady, server, quitLog, logged>>

\* The input files as a later start() finds them: every text stream has
\* been read to its end, so read() returns "".
Drained(entries) ==
    [i \in DOMAIN entries |->
        IF entries[i].source.type = "text"
        THEN [entries[i] EXCEPT !.source.data = ""] ELSE entries[i]]

\* start() called again on a runner that has launched its process, lines
\* 210-224: nothing looks at the earlier start.  A new CommandRunner replaces
\* self._runner, a new Event replaces the gate, the input files are staged
\* again (into a second temporary directory if none was passed) and a second
\* process is launched; the first process and its reader live on.  The model
\* follows the second process no further.
StartAgain ==
    /\ callerPc \in {"started", "stopped"}
    /\ proc # "none"
    /\ workingDir' = IF explicitDir THEN "user" ELSE "tmp2"
    /\ dirs' = dirs \cup {workingDir'}
    /\ fs' = StageAll(IF explicitDir THEN fs ELSE EmptyTree, Drained(inputFiles)).fs
    /\ endpointReady' = IF wait = "endpoint" THEN "clear" ELSE "None"
    /\ launches' = launches + 1
    /\ callerPc' = "restarted"
    /\ UNCHANGED <<configVars, stopCount, cleaned, raisedMsg, startResult, stopResult,
                   stopTrace, procVars, readerVars, classifierVars, stoppedOnError, server,
                   quitLog, logged>>

-----------------------------------------------------------------------------
(* RDFoxRunner.stop() and CommandRunner.stop() *)

\* What command_runner's logger records at level ERROR.
WaitTimeoutRecord == "Subprocess did not terminate in time when waiting, continuing"
StopTimeoutRecord == "Subprocess did not terminate in time"
ErrorCodeRecord == "Error running command"

\* start() has created the CommandRunner: self._runner exists.
RunnerCreated == endpointReady # "undefined"

\* stop() before any start(): send_quit reads self._runner, line 244, which
\* only start() assigns, line 215, so the call ends in AttributeError.
StopBeforeStart ==
    /\ callerPc = "init"
    /\ callerPc' = "stopped"
    /\ stopResult' = "attributeError"
    /\ stopCount' = stopCount + 1
    /\ UNCHANGED <<configVars, launches, cleaned, raisedMsg, startResult, stopTrace, dirVars,
                   procVars, readerVars, classifierVars, stoppedOnError, endpointReady,
                   server, quitLog, logged>>

\* Faulty variant: a write that fails is raised to the caller of send_quit.
SendQuitUnguarded == IF QuitResult = "failed" THEN "brokenPipe" ELSE "returned"

\* send_quit, lines 246-252: what its caller sees.  The failure of the write
\* (OSError, BrokenPipeError, ValueError) is caught and dropped.
SendQuit == "returned"

\* stop(), line 259: send_quit(), and stop_subprocess() once it returns.
StopEnter ==
    /\ callerPc' = IF proc = "none" \/ SendQuit = "returned" THEN "stopClose" ELSE "stopped"
    /\ stopCount' = stopCount + 1
    /\ stopResult' = IF proc = "none" \/ SendQuit = "returned" THEN "pending" ELSE SendQuit
    /\ stopTrace' = IF proc = "none" THEN <<>> ELSE <<"quit">>
    /\ quitLog' = IF proc = "none" THEN quitLog ELSE quitLog \cup {<<"caller", QuitResult>>}
    /\ UNCHANGED <<configVars, launches, cleaned, raisedMsg, startResult, dirVars, procVars,
                   readerVars, classifierVars, stoppedOnError, endpointReady, server, logged>>

\* stop() once start() has ended.
StopSendQuit == callerPc = "started" /\ StopEnter

\* stop() called again once an earlier stop() has ended.
StopAgain == callerPc = "stopped" /\ RunnerCreated /\ stopCount < MaxStops /\ StopEnter

\* stop_subprocess with no process: a warning, and nothing else.
StopNoProcess ==
    /\ callerPc = "stopClose"
    /\ proc = "none"
    /\ callerPc' = "stopCleanup"
    /\ UNCHANGED <<configVars, sessionVars, startResult, stopResult, stopTrace, dirVars, procVars,
                   readerVars, classifierVars, stoppedOnError, endpointReady, server,
                   quitLog>>

\* stop_subprocess, line 178: stdin.close().
StopCloseStdin ==
    /\ callerPc = "stopClose"
    /\ proc # "none"
    /\ stdinOpen' = FALSE
    /\ stopTrace' = Append(stopTrace, "close")
    /\ callerPc' = "stopTerminate"
    /\ UNCHANGED <<configVars, sessionVars, startResult, stopResult, dirVars, proc, exitStatus,
                   returncode, stdoutOpen, termSent, killSent, readerVars, classifierVars,
                   stoppedOnError, endpointReady, server, quitLog>>

\* Popen.terminate(): polls first, and signals only a process not yet reaped.
StopTerminate ==
    /\ callerPc = "stopTerminate"
    /\ returncode' = exitStatus
    /\ termSent' = IF exitStatus = {} THEN TRUE ELSE termSent
    /\ stopTrace' = Append(stopTrace, "terminate")
    /\ callerPc' = "stopWait"
    /\ UNCHANGED <<configVars, sessionVars, startResult, stopResult, dirVars, proc, exitStatus,
                   stdinOpen, stdoutOpen, killSent, readerVars, classifierVars,
                   stoppedOnError, endpointReady, server, quitLog>>

\* Faulty variant: the kill follows the wait whether or not it timed out.
StopWaitAlwaysKill ==
    /\ callerPc = "stopWait"
    /\ returncode' = exitStatus
    /\ stopTrace' = Append(stopTrace, "timeout")
    /\ callerPc' = "stopKill"
    /\ logged' = Append(logged, StopTimeoutRecord)
    /\ UNCHANGED <<configVars, stopCount, launches, cleaned, raisedMsg, startResult, stopResult, dirVars, proc, exitStatus,
                   stdinOpen, stdoutOpen, termSent, killSent, readerVars, classifierVars,
                   stoppedOnError, endpointReady, server, quitLog>>

\* Popen.wait(timeout=5): returns if the process exits within the grace
\* window, raises TimeoutExpired if it still runs when the window ends.
StopWait ==
    /\ callerPc = "stopWait"
    /\ returncode' = exitStatus
    /\ stopTrace' = Append(stopTrace, IF exitStatus = {} THEN "timeout" ELSE "wait")
    /\ callerPc' = IF exitStatus = {} THEN "stopKill" ELSE "stopJoin"
    /\ logged' = IF exitStatus = {} THEN Append(logged, StopTimeoutRecord) ELSE logged
    /\ UNCHANGED <<configVars, stopCount, launches, cleaned, raisedMsg, startResult, stopResult, dirVars, proc, exitStatus,
                   stdinOpen, stdoutOpen, termSent, killSent, readerVars, classifierVars,
                   stoppedOnError, endpointReady, server, quitLog>>

\* Faulty variant: no kill after the timeout.
StopKillNoSignal ==
    /\ callerPc = "stopKill"
    /\ returncode' = exitStatus
    /\ stopTrace' = Append(stopTrace, "kill")
    /\ callerPc' = "stopJoin"
    /\ UNCHANGED <<configVars, sessionVars, startResult, stopResult, dirVars, proc, exitStatus,
                   stdinOpen, stdoutOpen, termSent, killSent, readerVars, classifierVars,
                   stoppedOnError, endpointReady, server, quitLog>>

\* Popen.kill() after the timeout: polls first, like terminate().
StopKill ==
    /\ callerPc = "stopKill"
    /\ returncode' = exitStatus
    /\ killSent' = IF exitStatus = {} THEN TRUE ELSE killSent
    /\ stopTrace' = Append(stopTrace, "kill")
    /\ callerPc' = "stopJoin"
    /\ UNCHANGED <<configVars, sessionVars, startResult, stopResult, dirVars, proc, exitStatus,
                   stdinOpen, stdoutOpen, termSent, readerVars, classifierVars,
                   stoppedOnError, endpointReady, server, quitLog>>

\* Faulty variant: stop_subprocess without the join.
StopJoinNoWait ==
    /\ callerPc = "stopJoin"
    /\ stopTrace' = Append(stopTrace, "join")
    /\ callerPc' = "stopPoll"
    /\ UNCHANGED <<configVars, sessionVars, startResult, stopResult, dirVars, procVars, readerVars,
                   classifierVars, stoppedOnError, endpointReady, server, quitLog>>

\* self._output_thread.join(): returns once output_reader has returned.
StopJoin ==
    /\ callerPc = "stopJoin"
    /\ readerPc = "done"
    /\ stopTrace' = Append(stopTrace, "join")
    /\ callerPc' = "stopPoll"
    /\ UNCHANGED <<configVars, sessionVars, startResult, stopResult, dirVars, procVars, readerVars,
                   classifierVars, stoppedOnError, endpointReady, server, quitLog>>

\* poll(), then returncode > 0 / returncode < 0: with returncode still None
\* the comparison raises TypeError and stop() ends there.
StopPoll ==
    /\ callerPc = "stopPoll"
    /\ returncode' = exitStatus
    /\ stopTrace' = Append(stopTrace, "poll")
    /\ callerPc' = IF exitStatus = {} THEN "stopped" ELSE "stopCleanup"
    /\ stopResult' = IF exitStatus = {} THEN "typeError" ELSE stopResult
    /\ logged' = IF \E code \in exitStatus : code > 0
                 THEN Append(logged, ErrorCodeRecord) ELSE logged
    /\ UNCHANGED <<configVars, stopCount, launches, cleaned, raisedMsg, startResult, dirVars, proc, exitStatus, stdinOpen,
                   stdoutOpen, termSent, killSent, readerVars, classifierVars,
                   stoppedOnError, endpointReady, server, quitLog>>

\* Faulty variant: the environment override is not looked at.
CleanupIgnoringEnv == ~explicitDir

\* self._cleanup_working_dir, lines 73-76
CleanupWorkingDir == ~explicitDir /\ ~keepEnv

\* cleanup_files: a directory the runner may clean up is removed with all it
\* holds and working_dir becomes None; otherwise a warning, and nothing else.
CleanupFiles ==
    IF workingDir # "None" /\ CleanupWorkingDir
    THEN /\ dirs' = dirs \ {workingDir}
         /\ fs' = EmptyTree
         /\ workingDir' = "None"
    ELSE UNCHANGED <<dirs, fs, workingDir>>

\* CommandRunner.stop, lines 99-100: cleanup_files is called if the runner
\* may clean up.
StopCleanup ==
    /\ callerPc = "stopCleanup"
    /\ IF CleanupWorkingDir
       THEN /\ CleanupFiles
            /\ cleaned' = TRUE
            /\ stopTrace' = IF workingDir # "None" THEN Append(stopTrace, "cleanup")
                            ELSE stopTrace
       ELSE UNCHANGED <<dirs, fs, workingDir, cleaned, stopTrace>>
    /\ callerPc' = "stopCheck"
    /\ UNCHANGED <<configVars, stopCount, launches, raisedMsg, startResult, stopResult,
                   procVars, readerVars, classifierVars, stoppedOnError, endpointReady,
                   server, quitLog, logged>>

\* cleanup_files() called on the runner's CommandRunner once stop() has ended.
CleanupFilesCall ==
    /\ callerPc = "stopped"
    /\ RunnerCreated
    /\ CleanupFiles
    /\ cleaned' = TRUE
    /\ UNCHANGED <<configVars, stopCount, launches, raisedMsg, callerPc, startResult,
                   stopResult, stopTrace, procVars, readerVars, classifierVars,
                   stoppedOnError, endpointReady, server, quitLog, logged>>

\* the raise_for_errors() that ends stop().
StopCheck ==
    /\ callerPc = "stopCheck"
    /\ stopResult' = RaiseForErrors
    /\ raisedMsg' = Raise
    /\ callerPc' = "stopped"
    /\ UNCHANGED <<configVars, stopCount, launches, cleaned, startResult, stopTrace,
                   dirVars, procVars, readerVars,
                   classifierVars, stoppedOnError, endpointReady, server, quitLog, logged>>

-----------------------------------------------------------------------------
(* output_reader and the callback *)

\* readline() returns the next line and the callback classifies it.
ReaderLine ==
    /\ readerPc = "read"
    /\ readPos < Len(script)
    /\ LET st == CheckForErrors([multiline |-> multiline, critical |-> critical,
                                 criticalMsg |-> criticalMsg, errors |-> errors,
                                 event |-> "none"], script[readPos + 1])
       IN /\ multiline' = st.multiline
          /\ critical' = st.critical
          /\ criticalMsg' = st.criticalMsg
          /\ errors' = st.errors
          /\ todo' = EventSteps(st.event)
          /\ readerPc' = IF EventSteps(st.event) = <<>> THEN "read" ELSE "act"
    /\ readPos' = readPos + 1
    /\ delivered' = Append(delivered, Raw(script[readPos + 1]))
    /\ UNCHANGED <<configVars, callerVars, dirVars, procVars, stoppedOnError,
                   endpointReady, server, quitLog>>

\* the next effect of the endpoint or stop-requested branch.
ReaderAct ==
    /\ readerPc = "act"
    /\ todo # <<>>
    /\ LET step == Head(todo)
       IN /\ server' = IF step = "connect"
                       THEN "http://localhost:" \o script[readPos].tail ELSE server
          /\ endpointReady' = IF step = "signal" /\ endpointReady # "None"
                              THEN EventSet(endpointReady) ELSE endpointReady
          /\ stoppedOnError' = IF step = "flag" THEN TRUE ELSE stoppedOnError
          /\ quitLog' = IF step = "quit" THEN quitLog \cup {<<"reader", QuitResult>>}
                        ELSE quitLog
    /\ todo' = Tail(todo)
    /\ readerPc' = IF Tail(todo) = <<>> THEN "read" ELSE "act"
    /\ UNCHANGED <<configVars, callerVars, dirVars, procVars, readPos, classifierVars, delivered>>

\* readline() returns b"": everything was read and the write end is closed.
ReaderEOF ==
    /\ readerPc = "read"
    /\ readPos = Len(script)
    /\ ~stdoutOpen
    /\ readerPc' = "done"
    /\ UNCHANGED <<configVars, callerVars, dirVars, procVars, readPos, todo,
                   classifierVars, stoppedOnError, endpointReady, server, quitLog, delivered>>

-----------------------------------------------------------------------------
(* The external process *)

\* the process exits with the given status; its pipes close with it.
Exit(code) ==
    /\ proc = "running"
    /\ proc' = "exited"
    /\ exitStatus' = {code}
    /\ stdoutOpen' = FALSE
    /\ UNCHANGED <<configVars, callerVars, dirVars, returncode, stdinOpen, termSent,
                   killSent, readerVars, classifierVars, stoppedOnError, endpointReady,
                   server, quitLog>>

\* the process ends by itself (its script ran out, it read "quit", it failed);
\* not once SIGKILL has been delivered.
ProcExit == ~killSent /\ \E code \in {0, 1} : Exit(code)

\* the process dies of SIGTERM.
ProcTerminated == termSent /\ Exit(-15)

\* the process dies of SIGKILL.
ProcKilled == killSent /\ Exit(-9)

\* the process closes its output and runs on.
ProcCloseOutput ==
    /\ proc = "running"
    /\ stdoutOpen
    /\ stdoutOpen' = FALSE
    /\ UNCHANGED <<configVars, callerVars, dirVars, proc, exitStatus, returncode,
                   stdinOpen, termSent, killSent, readerVars, classifierVars,
                   stoppedOnError, endpointReady, server, quitLog>>

-----------------------------------------------------------------------------

Caller ==
    \/ StartCreate \/ SetupFiles \/ StartSubprocess \/ StartSubprocessFails
    \/ GateWaitEnter \/ GateWake \/ WaitForExit \/ StartCheck
    \/ StopSendQuit \/ StopNoProcess \/ StopCloseStdin \/ StopTerminate
    \/ StopWait \/ StopKill \/ StopJoin \/ StopPoll \/ StopCleanup \/ StopCheck

Reader == ReaderLine \/ ReaderAct \/ ReaderEOF

Process == ProcExit \/ ProcTerminated \/ ProcKilled \/ ProcCloseOutput

Next == Caller \/ Reader \/ Process

Spec == Init /\ [][Next]_vars

-----------------------------------------------------------------------------
(* The runner's whole life: Spec with the calls a caller may make out of   *)
(* turn (stop() before start(), stop() and cleanup_files() after stop(),   *)
(* start() after start()) and with the environment override set or not.   *)

LifeInit == Constructed(MaxLifeLines, BOOLEAN)

LaterCalls == StopBeforeStart \/ StopAgain \/ CleanupFilesCall \/ StartAgain

LifeNext == Next \/ LaterCalls

LifeSpec == LifeInit /\ [][LifeNext]_vars

-----------------------------------------------------------------------------
(* The reader and the classifier alone: a runner started under "nothing",  *)
(* its process running, over longer outputs and with the out-of-memory     *)
(* notice among the lines; the caller only calls raise_for_errors().       *)

ClassifierLines == ProcLines \cup {OutOfMemoryLine}

ClassifierInit ==
    /\ wait = "nothing"
    /\ explicitDir = FALSE
    /\ keepEnv = FALSE
    /\ inputFiles = RunnerInputs(<<>>)
    /\ script \in SeqsUpTo(ClassifierLines, MaxBlockLines)
    /\ callerPc = "started"
    /\ startResult = "returned"
    /\ stopResult = "pending"
    /\ stopTrace = <<>>
    /\ stopCount = 0
    /\ launches = 1
    /\ cleaned = FALSE
    /\ raisedMsg = ""
    /\ workingDir = "tmp"
    /\ dirs = {"tmp"}
    /\ fs = StageAll(EmptyTree, inputFiles).fs
    /\ proc = "running"
    /\ exitStatus = {}
    /\ returncode = {}
    /\ stdinOpen = TRUE
    /\ stdoutOpen = TRUE
    /\ termSent = FALSE
    /\ killSent = FALSE
    /\ readerPc = "read"
    /\ readPos = 0
    /\ todo = <<>>
    /\ multiline = InitClassifier.multiline
    /\ critical = InitClassifier.critical
    /\ criticalMsg = InitClassifier.criticalMsg
    /\ errors = InitClassifier.errors
    /\ stoppedOnError = FALSE
    /\ endpointReady = "None"
    /\ server = "None"
    /\ quitLog = {}
    /\ QuitArguments
    /\ InnerRunner

\* raise_for_errors() called by the caller between start() and stop().
CallRaiseForErrors ==
    /\ callerPc = "started"
    /\ raisedMsg' = Raise
    /\ UNCHANGED <<configVars, stopCount, launches, cleaned, callerPc, startResult,
                   stopResult, stopTrace, dirVars, procVars, readerVars, classifierVars,
                   stoppedOnError, endpointReady, server, quitLog, logged>>

ClassifierNext == ReaderLine \/ ReaderAct \/ CallRaiseForErrors

ClassifierSpec == ClassifierInit /\ [][ClassifierNext]_vars

-----------------------------------------------------------------------------
(* Staging alone: start() up to the launch, over the input files a caller  *)
(* may pass and over what a working directory passed by the caller holds.  *)

StageTargets == {<<"a.txt">>, <<"d">>, <<"d", "a.txt">>}

StageSources ==
    {FileSource("a.txt", "hello"), TextSource("bye"),
     DirSource(<<"a.txt">> :> FileNode("hello")), DirSource(EmptyTree)}

\* A mapping has each target once; its order is the order of insertion.
StageMappings ==
    {m \in SeqsUpTo([target : StageTargets, source : StageSources], MaxInputs) :
        \A i, j \in DOMAIN m : i # j => m[i].target # m[j].target}

\* What a working directory passed by the caller may hold already.
ExistingDirs ==
    {EmptyTree,
     (<<"d">> :> DirNode) @@ (<<"d", "old.txt">> :> FileNode("bye")),
     <<"a.txt">> :> DirNode,
     <<"d">> :> FileNode("bye")}

StageInit ==
    /\ wait = "nothing"
    /\ explicitDir \in BOOLEAN
    /\ keepEnv = FALSE
    /\ inputFiles \in {RunnerInputs(m) : m \in StageMappings}
    /\ script = <<>>
    /\ callerPc = "init"
    /\ startResult = "pending"
    /\ stopResult = "pending"
    /\ stopTrace = <<>>
    /\ stopCount = 0
    /\ launches = 0
    /\ cleaned = FALSE
    /\ raisedMsg = ""
    /\ workingDir = IF explicitDir THEN "user" ELSE "None"
    /\ fs \in (IF explicitDir THEN ExistingDirs ELSE {EmptyTree})
    /\ dirs = IF fs = EmptyTree THEN {} ELSE {"user"}
    /\ proc = "none"
    /\ exitStatus = {}
    /\ returncode = {}
    /\ stdinOpen = FALSE
    /\ stdoutOpen = FALSE
    /\ termSent = FALSE
    /\ killSent = FALSE
    /\ readerPc = "none"
    /\ readPos = 0
    /\ todo = <<>>
    /\ multiline = InitClassifier.multiline
    /\ critical = InitClassifier.critical
    /\ criticalMsg = InitClassifier.criticalMsg
    /\ errors = InitClassifier.errors
    /\ stoppedOnError = FALSE
    /\ endpointReady = "undefined"
    /\ server = "None"
    /\ quitLog = {}
    /\ QuitArguments
    /\ InnerRunner

StageNext == StartCreate \/ SetupFiles \/ StartSubprocess \/ StartSubprocessFails

StageSpec == StageInit /\ [][StageNext]_vars

\* The caller and the reader thread are scheduled; a process sent SIGKILL
\* dies.  Nothing makes a process exit by itself or honour SIGTERM.
LiveSpec == Spec /\ WF_vars(Caller) /\ WF_vars(Reader) /\ WF_vars(ProcKilled)

-----------------------------------------------------------------------------
(* CommandRunner used directly, as a context manager: __enter__, the body  *)
(* of the with statement, __exit__.  No RDFoxRunner is around it: the      *)
(* callback keeps the lines it is given, and start() is all of             *)
(* CommandRunner.start().  The command moves the staged file a.txt to      *)
(* result.txt and exits with 0, or finds no a.txt and exits with 1.  A     *)
(* line of its output may end in whitespace and may hold bytes that are    *)
(* not UTF-8.                                                              *)

\* The longest output the command writes.
MaxCmdLines == 2

\* The lines the command may write: trailing says whether whitespace comes
\* before the newline, valid whether the bytes decode as UTF-8.
ShortOut == [indent |-> FALSE, head |-> "error", tail |-> "",
             trailing |-> FALSE, valid |-> TRUE]
PaddedOut == [indent |-> TRUE, head |-> ErrorHead, tail |-> "moved",
              trailing |-> TRUE, valid |-> TRUE]
UndecodableOut == [indent |-> FALSE, head |-> "caf\\xe9", tail |-> "",
                   trailing |-> FALSE, valid |-> FALSE]

CmdLines == {ShortOut, PaddedOut, UndecodableOut}

\* the two files of `mv a.txt result.txt`
MoveSource == <<"a.txt">>
MoveTarget == <<"result.txt">>

ContextInit ==
    /\ wait = "nothing"
    /\ explicitDir = FALSE
    /\ keepEnv = FALSE
    /\ inputFiles \in {<<>>, <<[target |-> MoveSource, source |-> TextSource("a")]>>}
    /\ script \in SeqsUpTo(CmdLines, MaxCmdLines)
    /\ callerPc = "setup"
    /\ startResult = "pending"
    /\ stopResult = "pending"
    /\ stopTrace = <<>>
    /\ stopCount = 0
    /\ launches = 0
    /\ cleaned = FALSE
    /\ raisedMsg = ""
    /\ workingDir = "None"
    /\ dirs = {}
    /\ fs = EmptyTree
    /\ proc = "none"
    /\ exitStatus = {}
    /\ returncode = {}
    /\ stdinOpen = FALSE
    /\ stdoutOpen = FALSE
    /\ termSent = FALSE
    /\ killSent = FALSE
    /\ readerPc = "none"
    /\ readPos = 0
    /\ todo = <<>>
    /\ multiline = InitClassifier.multiline
    /\ critical = InitClassifier.critical
    /\ criticalMsg = InitClassifier.criticalMsg
    /\ errors = InitClassifier.errors
    /\ stoppedOnError = FALSE
    /\ endpointReady = "None"
    /\ server = "None"
    /\ quitLog = {}
    /\ waitArg = "None"
    /\ scriptArg = StringArg(<<>>)
    /\ filesArg = inputFiles
    /\ timeout \in {"None", "finite"}
    /\ waitBeforeEnter \in BOOLEAN
    /\ waitBeforeExit \in BOOLEAN
    /\ logged = <<>>
    /\ delivered = <<>>

\* Faulty variant: a wait that timed out terminates the process.
WaitThenTerminate ==
    /\ exitStatus # {} \/ timeout # "None"
    /\ returncode' = exitStatus
    /\ logged' = IF exitStatus = {} THEN Append(logged, WaitTimeoutRecord) ELSE logged
    /\ termSent' = IF exitStatus = {} THEN TRUE ELSE termSent
    /\ UNCHANGED <<configVars, stopCount, launches, cleaned, raisedMsg, startResult,
                   stopResult, stopTrace, dirVars, proc, exitStatus, stdinOpen,
                   stdoutOpen, killSent, readerVars, classifierVars,
                   stoppedOnError, endpointReady, server, quitLog>>

\* CommandRunner.wait(), lines 161-165: Popen.wait(timeout) returns once the
\* process has exited, and sets returncode; with a timeout it raises
\* TimeoutExpired when the time is up, which is logged and dropped.  With no
\* timeout it blocks until the process exits.
Wait ==
    /\ exitStatus # {} \/ timeout # "None"
    /\ returncode' = exitStatus
    /\ logged' = IF exitStatus = {} THEN Append(logged, WaitTimeoutRecord) ELSE logged
    /\ UNCHANGED <<configVars, stopCount, launches, cleaned, raisedMsg, startResult,
                   stopResult, stopTrace, dirVars, proc, exitStatus, stdinOpen,
                   stdoutOpen, termSent, killSent, readerVars, classifierVars,
                   stoppedOnError, endpointReady, server, quitLog>>

\* The caller moves on and nothing else changes.
Goes(pc) ==
    /\ callerPc' = pc
    /\ UNCHANGED <<configVars, sessionVars, startResult, stopResult, stopTrace, dirVars,
                   procVars, readerVars, classifierVars, stoppedOnError, endpointReady,
                   server, quitLog>>

\* Faulty variant: __enter__ returns without the wait.
EnterWaitSkipped ==
    /\ callerPc = "started" /\ startResult = "returned"
    /\ waitBeforeEnter
    /\ Goes("body")

\* __enter__, lines 224-226: start() has returned; wait(), then the body.
EnterWait ==
    /\ callerPc = "started" /\ startResult = "returned"
    /\ waitBeforeEnter
    /\ Wait
    /\ callerPc' = "body"

\* __enter__ with wait_before_enter false: the body starts at once.
EnterBody ==
    /\ callerPc = "started" /\ startResult = "returned"
    /\ ~waitBeforeEnter
    /\ Goes("body")

\* Faulty variant: __exit__ calls stop() without the wait.
ExitWaitSkipped ==
    /\ callerPc = "body"
    /\ waitBeforeExit
    /\ Goes("exit")

\* __exit__, lines 229-230: the body has ended; wait().
ExitWait ==
    /\ callerPc = "body"
    /\ waitBeforeExit
    /\ Wait
    /\ callerPc' = "exit"

\* __exit__ with wait_before_exit false.
ExitBody ==
    /\ callerPc = "body"
    /\ ~waitBeforeExit
    /\ Goes("exit")

\* __exit__, line 231: CommandRunner.stop() begins, with stop_subprocess().
CommandStop ==
    /\ callerPc = "exit"
    /\ callerPc' = "stopClose"
    /\ stopCount' = stopCount + 1
    /\ stopTrace' = <<>>
    /\ UNCHANGED <<configVars, launches, cleaned, raisedMsg, logged, startResult,
                   stopResult, dirVars, procVars, readerVars, classifierVars,
                   stoppedOnError, endpointReady, server, quitLog>>

\* CommandRunner.stop() returns, and __exit__ with it.
CommandStopped ==
    /\ callerPc = "stopCheck"
    /\ callerPc' = "stopped"
    /\ stopResult' = "returned"
    /\ UNCHANGED <<configVars, sessionVars, startResult, stopTrace, dirVars, procVars,
                   readerVars, classifierVars, stoppedOnError, endpointReady, server,
                   quitLog>>

\* output_reader, lines 276-281: the next line is decoded, trailing
\* whitespace is removed and the callback is given the rest.  Bytes that are
\* not UTF-8 make decode() raise in the reader thread, which ends there.
ReaderDeliver ==
    /\ readerPc = "read"
    /\ readPos < Len(script)
    /\ LET line == script[readPos + 1]
       IN /\ delivered' = IF line.valid THEN Append(delivered, Raw(line)) ELSE delivered
          /\ readerPc' = IF line.valid THEN "read" ELSE "done"
    /\ readPos' = readPos + 1
    /\ UNCHANGED <<configVars, callerVars, dirVars, procVars, todo, classifierVars,
                   stoppedOnError, endpointReady, server, quitLog>>

\* the command moves a.txt to result.txt.
CmdMove ==
    /\ proc = "running"
    /\ Exists(fs, MoveSource)
    /\ fs' = [p \in (DOMAIN fs \ {MoveSource}) \cup {MoveTarget} |->
                 IF p = MoveTarget THEN fs[MoveSource] ELSE fs[p]]
    /\ UNCHANGED <<configVars, callerVars, workingDir, dirs, procVars, readerVars,
                   classifierVars, stoppedOnError, endpointReady, server, quitLog>>

\* the command ends by itself: with 0 once the file is moved, with 1 if
\* there is no file to move.
CmdExit ==
    /\ ~killSent
    /\ ~Exists(fs, MoveSource)
    /\ Exit(IF Exists(fs, MoveTarget) THEN 0 ELSE 1)

ContextCaller ==
    \/ SetupFiles \/ StartSubprocess \/ StartSubprocessFails
    \/ EnterWait \/ EnterBody \/ ExitWait \/ ExitBody \/ CommandStop
    \/ StopCloseStdin \/ StopTerminate \/ StopWait \/ StopKill \/ StopJoin
    \/ StopPoll \/ StopCleanup \/ CommandStopped

ContextReader == ReaderDeliver \/ ReaderEOF

ContextProcess == CmdMove \/ CmdExit \/ ProcTerminated \/ ProcKilled \/ ProcCloseOutput

ContextNext == ContextCaller \/ ContextReader \/ ContextProcess

ContextSpec == ContextInit /\ [][ContextNext]_vars

-----------------------------------------------------------------------------
(* RDFoxRunner(input_files, script, wait=...) and the start() that follows, *)
(* up to the launch, over the arguments a caller may pass: a target that is *)
(* the reserved name or not, a script given as a string or as a list, with  *)
(* "endpoint start" in it or not, a wait policy given, left out or wrong.   *)

\* The scripts a caller may pass.
ScriptArgs ==
    {StringArg(<<"quit">>),
     StringArg(<<"set", " ", "endpoint", " ", "start", "\n", "quit">>),
     StringArg(<<"start", " ", "endpoint">>),
     ListArg(<<<<"endpoint", " ", "start">>, <<"quit">>>>),
     ListArg(<<<<"endpoint">>, <<"start">>>>),
     ListArg(<<>>)}

\* The wait arguments a caller may pass; "forever" is none of the policies.
WaitArgs == {"None", "endpoint", "exit", "nothing", "forever"}

\* The input files a caller may pass.
UserFile == [target |-> <<"a.txt">>, source |-> TextSource("hello")]
ReservedFile == [target |-> <<MasterKey>>, source |-> TextSource("mine")]
FilesArgs == {<<>>, <<UserFile>>, <<ReservedFile>>, <<UserFile, ReservedFile>>}

ConstructInit ==
    /\ wait = "undefined"
    /\ explicitDir \in BOOLEAN
    /\ keepEnv = FALSE
    /\ inputFiles = <<>>
    /\ script = <<>>
    /\ callerPc = "new"
    /\ startResult = "pending"
    /\ stopResult = "pending"
    /\ stopTrace = <<>>
    /\ stopCount = 0
    /\ launches = 0
    /\ cleaned = FALSE
    /\ raisedMsg = ""
    /\ workingDir = IF explicitDir THEN "user" ELSE "None"
    /\ dirs = {}
    /\ fs = EmptyTree
    /\ proc = "none"
    /\ exitStatus = {}
    /\ returncode = {}
    /\ stdinOpen = FALSE
    /\ stdoutOpen = FALSE
    /\ termSent = FALSE
    /\ killSent = FALSE
    /\ readerPc = "none"
    /\ readPos = 0
    /\ todo = <<>>
    /\ multiline = InitClassifier.multiline
    /\ critical = InitClassifier.critical
    /\ criticalMsg = InitClassifier.criticalMsg
    /\ errors = InitClassifier.errors
    /\ stoppedOnError = FALSE
    /\ endpointReady = "undefined"
    /\ server = "None"
    /\ quitLog = {}
    /\ waitArg \in WaitArgs
    /\ scriptArg \in ScriptArgs
    /\ filesArg \in FilesArgs
    /\ InnerRunner

\* MASTER_KEY in input_files, line 106
Reserved(files) == \E i \in 1..Len(files) : files[i].target = <<MasterKey>>

\* lines 115-122: the policy, inferred from the script when none is given;
\* a policy that is none of the three is refused.
InferWait(arg, text) ==
    IF arg = "None"
    THEN IF Contains(text, EndpointStartText) THEN "endpoint" ELSE "exit"
    ELSE arg

ValidWait(policy) == policy \in {"endpoint", "exit", "nothing"}

\* Faulty variant: the constructor checks neither the targets nor the policy.
ConstructUnchecked ==
    /\ callerPc = "new"
    /\ callerPc' = "init"
    /\ wait' = InferWait(waitArg, ScriptText(scriptArg))
    /\ inputFiles' = WithMaster(filesArg, ScriptText(scriptArg))
    /\ UNCHANGED <<explicitDir, keepEnv, script, waitArg, scriptArg, filesArg, timeout,
                   waitBeforeEnter, waitBeforeExit, sessionVars, startResult, stopResult,
                   stopTrace, dirVars, procVars, readerVars, classifierVars,
                   stoppedOnError, endpointReady, server, quitLog>>

\* RDFoxRunner.__init__, lines 105-135: ValueError for the reserved target
\* or for a wait that is no policy; otherwise the policy and the input
\* files, with the master script, are stored.
Construct ==
    /\ callerPc = "new"
    /\ LET text == ScriptText(scriptArg)
           policy == InferWait(waitArg, text)
       IN IF Reserved(filesArg) \/ ~ValidWait(policy)
          THEN /\ callerPc' = "valueError"
               /\ UNCHANGED <<wait, inputFiles>>
          ELSE /\ callerPc' = "init"
               /\ wait' = policy
               /\ inputFiles' = WithMaster(filesArg, text)
    /\ UNCHANGED <<explicitDir, keepEnv, script, waitArg, scriptArg, filesArg, timeout,
                   waitBeforeEnter, waitBeforeExit, sessionVars, startResult, stopResult,
                   stopTrace, dirVars, procVars, readerVars, classifierVars,
                   stoppedOnError, endpointReady, server, quitLog>>

ConstructNext ==
    Construct \/ StartCreate \/ SetupFiles \/ StartSubprocess \/ StartSubprocessFails

ConstructSpec == ConstructInit /\ [][ConstructNext]_vars

-----------------------------------------------------------------------------
(* run_in_dir (run_in_dir.py): the working directory is made, the input    *)
(* files are copied into it, the command runs to its end while its output  *)
(* is read in the caller's own thread, the output files are read back, and *)
(* the directory is removed on the way out if run_in_dir made it.  The     *)
(* command is `mv a.txt result.txt`; its output decodes.  The outcome of   *)
(* the call is where the caller ends: "runReturned" or the error raised.   *)

\* The input files a caller may pass: none, the file to move, or two whose
\* targets collide (the second lies below the first, a file).
RunInputs ==
    {<<>>,
     <<[target |-> MoveSource, source |-> TextSource("a")]>>,
     <<[target |-> MoveSource, source |-> TextSource("a")],
       [target |-> MoveSource \o <<"b.txt">>, source |-> TextSource("b")]>>}

RunInit ==
    /\ wait = "undefined"
    /\ explicitDir \in BOOLEAN
    /\ keepEnv = FALSE
    /\ inputFiles \in RunInputs
    /\ script \in SeqsUpTo({ShortOut, PaddedOut}, MaxCmdLines)
    /\ callerPc = "run"
    /\ startResult = "pending"
    /\ stopResult = "pending"
    /\ stopTrace = <<>>
    /\ stopCount = 0
    /\ launches = 0
    /\ cleaned = FALSE
    /\ raisedMsg = ""
    /\ workingDir = IF explicitDir THEN "user" ELSE "None"
    /\ dirs \in IF explicitDir THEN {{}, {"user"}} ELSE {{}}
    /\ fs = EmptyTree
    /\ proc = "none"
    /\ exitStatus = {}
    /\ returncode = {}
    /\ stdinOpen = FALSE
    /\ stdoutOpen = FALSE
    /\ termSent = FALSE
    /\ killSent = FALSE
    /\ readerPc = "none"
    /\ readPos = 0
    /\ todo = <<>>
    /\ multiline = InitClassifier.multiline
    /\ critical = InitClassifier.critical
    /\ criticalMsg = InitClassifier.criticalMsg
    /\ errors = InitClassifier.errors
    /\ stoppedOnError = FALSE
    /\ endpointReady = "undefined"
    /\ server = "None"
    /\ quitLog = {}
    /\ waitArg = "None"
    /\ scriptArg = StringArg(<<>>)
    /\ filesArg = inputFiles
    /\ InnerRunner

\* Faulty variant: the directory is removed only when run_in_dir returns.
RunLeaveOnSuccess(outcome) ==
    /\ callerPc' = outcome
    /\ IF ~explicitDir /\ outcome = "runReturned"
       THEN /\ dirs' = dirs \ {workingDir}
            /\ fs' = EmptyTree
       ELSE UNCHANGED <<dirs, fs>>

\* The with statement of line 81 is left, by return or by an exception:
\* WorkingDirectory.__exit__, lines 47-53, removes the directory with all it
\* holds unless it was passed in.
RunLeave(outcome) ==
    /\ callerPc' = outcome
    /\ IF ~explicitDir
       THEN /\ dirs' = dirs \ {workingDir}
            /\ fs' = EmptyTree
       ELSE UNCHANGED <<dirs, fs>>

\* WorkingDirectory(working_dir), lines 27-41, and the copies of lines
\* 83-84: mkdtemp() if no directory was passed, mkdir, then the input files
\* in order; a copy that raises ends the call.
RunStage ==
    /\ callerPc = "run"
    /\ LET made == IF explicitDir THEN "user" ELSE "tmp"
           staged == StageAll(fs, inputFiles)
       IN /\ workingDir' = made
          /\ IF staged.ok
             THEN /\ callerPc' = "runLaunch"
                  /\ dirs' = dirs \cup {made}
                  /\ fs' = staged.fs
             ELSE /\ callerPc' = "runIoError"
                  /\ dirs' = IF explicitDir THEN dirs \cup {made} ELSE dirs
                  /\ fs' = IF explicitDir THEN staged.fs ELSE EmptyTree
    /\ UNCHANGED <<configVars, sessionVars, startResult, stopResult, stopTrace, procVars,
                   readerVars, classifierVars, stoppedOnError, endpointReady, server,
                   quitLog>>

\* run_subprocess, lines 128-136: Popen, with the output piped.
RunLaunch ==
    /\ callerPc = "runLaunch"
    /\ callerPc' = "runRead"
    /\ proc' = "running"
    /\ stdoutOpen' = TRUE
    /\ launches' = launches + 1
    /\ UNCHANGED <<configVars, stopCount, cleaned, raisedMsg, logged, startResult,
                   stopResult, stopTrace, dirVars, exitStatus, returncode, stdinOpen,
                   termSent, killSent, readerVars, classifierVars, stoppedOnError,
                   endpointReady, server, quitLog>>

\* Popen raises (no such executable): the with statement is left at once.
RunLaunchFails ==
    /\ callerPc = "runLaunch"
    /\ RunLeave("runLaunchError")
    /\ UNCHANGED <<configVars, sessionVars, startResult, stopResult, stopTrace, workingDir,
                   procVars, readerVars, classifierVars, stoppedOnError, endpointReady,
                   server, quitLog>>

\* lines 137-140: the next line, without its trailing whitespace, is given
\* to the callback.
RunRead ==
    /\ callerPc = "runRead"
    /\ readPos < Len(script)
    /\ readPos' = readPos + 1
    /\ delivered' = Append(delivered, Raw(script[readPos + 1]))
    /\ UNCHANGED <<configVars, callerVars, dirVars, procVars, readerPc, todo,
                   classifierVars, stoppedOnError, endpointReady, server, quitLog>>

\* readline() returns "": Popen.__exit__ waits for the process to exit;
\* lines 142-144 raise CalledProcessError for a status that is not 0.
RunWait ==
    /\ callerPc = "runRead"
    /\ readPos = Len(script)
    /\ ~stdoutOpen
    /\ exitStatus # {}
    /\ returncode' = exitStatus
    /\ IF exitStatus = {0}
       THEN /\ callerPc' = "runCollect"
            /\ UNCHANGED <<dirs, fs>>
       ELSE RunLeave("runCalledProcessError")
    /\ UNCHANGED <<configVars, sessionVars, startResult, stopResult, stopTrace, workingDir,
                   proc, exitStatus, stdinOpen, stdoutOpen, termSent, killSent,
                   readerVars, classifierVars, stoppedOnError, endpointReady, server,
                   quitLog>>

\* get_file_contents, lines 118-122: every output file is opened; one that
\* does not exist raises FileNotFoundError.  Then the with statement ends.
\* The caller asks for no file, for the moved file, or also for its source.
RunCollect ==
    /\ callerPc = "runCollect"
    /\ \E outputs \in {{}, {MoveTarget}, {MoveTarget, MoveSource}} :
          IF \A p \in outputs : Exists(fs, p)
          THEN RunLeave("runReturned")
          ELSE RunLeave("runFileNotFound")
    /\ UNCHANGED <<configVars, sessionVars, startResult, stopResult, stopTrace, workingDir,
                   procVars, readerVars, classifierVars, stoppedOnError, endpointReady,
                   server, quitLog>>

RunNext ==
    \/ RunStage \/ RunLaunch \/ RunLaunchFails \/ RunRead \/ RunWait \/ RunCollect
    \/ CmdMove \/ CmdExit \/ ProcCloseOutput

RunSpec == RunInit /\ [][RunNext]_vars

-----------------------------------------------------------------------------
(* Claims *)

\* The process was launched: there is a Popen object and an output thread.
Launched == proc # "none"

\* The reader has taken line i and the callback has returned from it.
Processed(i) == i < readPos \/ (i = readPos /\ readerPc # "act")

\* Line i of the output reached the chain of patterns: it was neither added
\* to an open block nor taken as the critical message.
Classified(i) ==
    LET before == ClassifierAfter(SubSeq(script, 1, i - 1))
    IN /\ ~(before.multiline.active /\ StartsWithSpace(script[i]))
       /\ ~(~before.multiline.active /\ before.critical /\ before.criticalMsg = "")

\* Line i is a stop-requested line and no readiness line comes before it.
StopBeforeReadiness(i) ==
    /\ IsStopLine(script[i])
    /\ \A j \in 1..(i - 1) : ~MatchesEndpoint(script[j])

\* What the stop-requested branch leaves behind once the callback returned.
StopBranchDone ==
    /\ stoppedOnError
    /\ \E r \in {"written", "failed"} : <<"reader", r>> \in quitLog
    /\ (wait = "endpoint" => endpointReady = "set")

\* The caller has come out of the wait on the readiness gate.
Released == callerPc \notin {"init", "setup", "launch", "gateWait", "gateBlocked"}

\* C1 (as claimed): under the "endpoint" policy, when the reader has reached
\* end-of-stream and returned, the readiness gate has been fired.
C1_GateFiredAtEndOfStream ==
    (wait = "endpoint" /\ readerPc = "done") => endpointReady = "set"

\* C2 (as claimed): every stop-requested line that the process wrote before
\* any readiness line, once the callback has returned from it, has set
\* stopped_on_error, sent quit and fired the gate.
C2_EveryStopLineReleases ==
    \A i \in 1..Len(script) :
        (StopBeforeReadiness(i) /\ Processed(i)) => StopBranchDone

\* The state part of C2: what a classified stop-requested line has done, and
\* what a caller released without a connected endpoint sees.
C2_StopSafe ==
    /\ \A i \in 1..Len(script) :
          (StopBeforeReadiness(i) /\ Classified(i) /\ Processed(i)) => StopBranchDone
    /\ (wait = "endpoint" /\ Launched /\ Released /\ server = "None") => stoppedOnError

\* Under "endpoint", the callback has returned from such a line.
C2_StopPending ==
    /\ wait = "endpoint"
    /\ \E i \in 1..Len(script) : StopBeforeReadiness(i) /\ Classified(i) /\ Processed(i)

\* C2 (amended): a stop-requested line written before any readiness line and
\* not taken as the critical message sets stopped_on_error, sends quit and
\* fires the gate, in that order; a caller that comes out of the gate with no
\* endpoint connected sees stopped_on_error true; and under the "endpoint"
\* policy the caller is then released.
C2_ClassifiedStopLineReleases == []C2_StopSafe /\ (C2_StopPending ~> Released)

\* C2 witness: the caller was released by a stop-requested line alone.
C2_Witness ==
    /\ wait = "endpoint" /\ callerPc = "startCheck"
    /\ server = "None" /\ stoppedOnError
    /\ <<"reader", "written">> \in quitLog

\* Line i is a readiness line, classified as one, and the callback has
\* returned from it.
ReadinessProcessed(i) == MatchesEndpoint(script[i]) /\ Classified(i) /\ Processed(i)

\* The state part of C3: where the caller waits, the process is launched.
C3_WaitsAfterLaunch ==
    callerPc \in {"gateWait", "gateBlocked"} =>
        (Launched /\ readerPc # "none" /\ endpointReady \in {"clear", "set"})

\* C3: the caller waits on the gate only once the process is launched and
\* the gate exists, and a readiness line classified at any time after launch,
\* also before the caller has begun to wait, releases the caller's wait.
C3_NoLostWakeup ==
    /\ []C3_WaitsAfterLaunch
    /\ ((wait = "endpoint" /\ \E i \in 1..Len(script) : ReadinessProcessed(i)) ~> Released)

\* C3 witness: the gate was fired before the caller began to wait.
C3_Witness == callerPc = "gateWait" /\ endpointReady = "set" /\ server # "None"

\* C4: a gate fired by a readiness line is fired after the endpoint was
\* connected to the captured port: whoever sees the gate set, and not set by
\* a stop-requested line, sees the endpoint connected.
C4_ConnectedBeforeFired ==
    /\ (endpointReady = "set" /\ ~stoppedOnError) => server = "http://localhost:12110"
    /\ (wait = "endpoint" /\ Released /\ Launched /\ ~stoppedOnError)
          => server = "http://localhost:12110"

\* C4 witness: start() returned under "endpoint" after a readiness line.
C4_Witness ==
    /\ wait = "endpoint" /\ callerPc = "started" /\ startResult = "returned"
    /\ ~stoppedOnError /\ server = "http://localhost:12110"

C6_ReaderDrainedAfterStop ==
    (callerPc = "stopped" /\ Launched) =>
        (readerPc = "done" /\ readPos = Len(script) /\ todo = <<>>)

\* C6 witness: stop() has ended after the reader logged an error.
C6_Witness == callerPc = "stopped" /\ Launched /\ errors # <<>> /\ stopResult = "returned"

\* The single-line error lines of the output.
ErrorLineCount == Cardinality({i \in 1..Len(script) : MatchesError(script[i])})

\* The block starts of the output that a continuation line follows.
BlockCount ==
    Cardinality({i \in 1..(Len(script) - 1) :
                    MatchesMultiline(script[i]) /\ StartsWithSpace(script[i + 1])})

\* C7 (as claimed): once stop() has returned, the error log has one entry
\* for every single-line error line and one for every block with at least
\* one continuation line, wherever it is in the output.
C7_ErrorLogComplete ==
    (callerPc = "stopped" /\ Launched /\ stopResult \in {"returned", "raised"})
        => Len(errors) = ErrorLineCount + BlockCount

\* C8 (as claimed): under the "exit" policy, when the output holds a critical
\* error, the check at the end of start() sees it and start() raises.
C8_StartRaisesCritical ==
    (wait = "exit" /\ Launched /\ startResult # "pending" /\ ClassifierAfter(script).critical)
        => startResult = "raised"

\* The steps of stop() when the process exits within the grace window, and
\* when it does not.
StopOrderExited == <<"quit", "close", "terminate", "wait", "join", "poll">>
StopOrderKilled == <<"quit", "close", "terminate", "timeout", "kill", "join", "poll">>

Teardown == IF explicitDir THEN <<>> ELSE <<"cleanup">>

C9_Order ==
    /\ Launched => \/ IsPrefix(stopTrace, StopOrderExited \o Teardown)
                   \/ IsPrefix(stopTrace, StopOrderKilled \o Teardown)
    /\ (callerPc = "stopped" /\ Launched /\ stopResult # "typeError")
          => stopTrace \in {StopOrderExited \o Teardown, StopOrderKilled \o Teardown}
    /\ (~explicitDir /\ Launched /\ callerPc \notin {"stopCheck", "stopped"})
          => "tmp" \in dirs

\* The grace window ends in a timeout, and SIGKILL is sent, only while the
\* process still runs.
C9_KillOnlyIfAlive ==
    /\ (callerPc = "stopWait" /\ callerPc' = "stopKill") => exitStatus = {}
    /\ (~killSent /\ killSent') => (exitStatus = {} /\ callerPc = "stopKill")

\* C9: stop() on a launched process performs quit, close, terminate, wait,
\* (kill), join, poll, teardown in this order, and kills only a process that
\* is still running when the grace window has ended.
C9_StopOrder == []C9_Order /\ [][C9_KillOnlyIfAlive]_vars

\* C9 witness: stop() has returned after a kill, the owned directory removed.
C9_Witness ==
    /\ callerPc = "stopped" /\ stopResult = "returned" /\ ~explicitDir
    /\ stopTrace = StopOrderKilled \o <<"cleanup">> /\ dirs = {}

\* C10: stop() always terminates: once stop() has begun, it ends (by
\* returning or by raising), whatever the process does and however long the
\* reader takes.
C10_StopTerminates == (callerPc = "stopClose") ~> (callerPc = "stopped")

\* C10 witness: stop() has ended on a process that had to be killed.
C10_Witness == callerPc = "stopped" /\ exitStatus = {-9} /\ returncode = {-9}


\* C11 (as claimed): when stop() has ended after the grace window ran out and
\* the process was sent SIGKILL, the exit status has been read back:
\* returncode is not None, and it is the status of a process ended by a signal.
C11_ReturncodeAfterKill ==
    (callerPc = "stopped" /\ killSent) => returncode \in {{-9}, {-15}}

\* C12 (as claimed): when the first stop() of a launched runner has ended with
\* the critical flag set, the process has ended, the reader has been joined,
\* the working directory the runner may clean up is gone, and what stop()
\* raised is the critical error.
C12_CleanupBeforeCriticalRaise ==
    (callerPc = "stopped" /\ Launched /\ stopCount = 1 /\ critical)
        => /\ exitStatus # {}
           /\ readerPc = "done"
           /\ CleanupWorkingDir => (workingDir = "None" /\ "tmp" \notin dirs)
           /\ stopResult = "raised"

\* A step of a second or later stop(), and the end of one.
InLaterStop == stopCount >= 2 /\ callerPc # "stopped"

\* C13 (as claimed): a second stop() raises nothing and leaves returncode,
\* the working directory, the error log and the critical flag as the first
\* call left them; and a cleanup_files() after a first one changes nothing.
C13_SecondCallNoEffect ==
    [][/\ InLaterStop =>
            /\ returncode' = returncode
            /\ workingDir' = workingDir /\ dirs' = dirs /\ fs' = fs
            /\ errors' = errors /\ critical' = critical
            /\ stopResult' \in {"pending", "returned"}
       /\ (cleaned /\ launches' = launches) =>
            (workingDir' = workingDir /\ dirs' = dirs /\ fs' = fs)]_vars

\* C14 (as claimed): a runner launches at most one process in its lifetime:
\* a second start() launches nothing.
C14_AtMostOneLaunch == launches <= 1

\* C15 (as claimed): a stop() on a runner that was never started raises
\* nothing and changes nothing.
C15_StopUnstartedNoOp ==
    (callerPc = "stopped" /\ ~RunnerCreated)
        => /\ stopResult = "returned"
           /\ dirs = {} /\ proc = "none" /\ ~termSent /\ ~killSent
           /\ workingDir = (IF explicitDir THEN "user" ELSE "None")

\* C16 (as claimed): once stop() has ended on a started runner, a working
\* directory the runner created with no override set is removed and
\* working_dir is None; any other working directory is still there, and a
\* directory passed by the caller is never removed.
C16_RemovedIffOwned ==
    /\ (callerPc = "stopped" /\ RunnerCreated) =>
          IF CleanupWorkingDir THEN workingDir = "None" /\ "tmp" \notin dirs
          ELSE workingDir # "None" /\ workingDir \in dirs
    /\ (explicitDir /\ RunnerCreated /\ callerPc # "setup") => "user" \in dirs


\* The target of an input file holds what its source holds: a file with the
\* same content, or a directory with the same tree and nothing else under it.
SameAsSource(e) ==
    IF e.source.type = "dir"
    THEN /\ Exists(fs, e.target) /\ fs[e.target].kind = "dir"
         /\ \A q \in DOMAIN fs :
               (IsPrefix(e.target, q) /\ q # e.target) =>
                   LET r == SubSeq(q, Len(e.target) + 1, Len(q))
                   IN r \in DOMAIN e.source.tree /\ fs[q] = e.source.tree[r]
         /\ \A r \in DOMAIN e.source.tree :
               Exists(fs, e.target \o r) /\ fs[e.target \o r] = e.source.tree[r]
    ELSE Exists(fs, e.target) /\ fs[e.target] = FileNode(e.source.data)

\* A file source copied into the directory its target already was.
CopiedInto(e) ==
    /\ e.source.type = "file"
    /\ Exists(fs, e.target) /\ fs[e.target].kind = "dir"
    /\ Exists(fs, Append(e.target, e.source.name))
    /\ fs[Append(e.target, e.source.name)] = FileNode(e.source.data)

\* Every directory above the target exists.
ParentsExist(e) ==
    \A k \in 1..(Len(e.target) - 1) :
        Exists(fs, SubSeq(e.target, 1, k)) /\ fs[SubSeq(e.target, 1, k)].kind = "dir"

\* No target is another target or lies under one.
NoOverlap(m) ==
    \A i, j \in DOMAIN m : i # j => ~IsPrefix(m[i].target, m[j].target)

\* start() has returned: the inputs were staged and the process launched.
StartReturned == callerPc = "started" /\ startResult = "returned"

\* C17 (as claimed): after start(), for every mapping, every target exists
\* under the working directory and holds what its source holds, below
\* parent directories created on demand.
C17_EveryTargetStaged ==
    StartReturned =>
        \A i \in DOMAIN inputFiles : SameAsSource(inputFiles[i]) /\ ParentsExist(inputFiles[i])

\* C17 (amended): after a start() that raised nothing, for every mapping in
\* which no target lies under another, every target exists below parent
\* directories created on demand and holds what its source holds (file: same
\* content; directory: same tree, whatever the destination held before; text
\* stream: the text read), except that a file source whose target was
\* already a directory is copied into that directory under its own name.
C17_DisjointTargetsStaged ==
    (StartReturned /\ NoOverlap(inputFiles)) =>
        \A i \in DOMAIN inputFiles :
            /\ SameAsSource(inputFiles[i]) \/ CopiedInto(inputFiles[i])
            /\ ParentsExist(inputFiles[i])

\* C17 witness: start() has returned with a file staged below a directory
\* made for it, next to a directory tree and the master script.
C17_Witness ==
    /\ StartReturned /\ NoOverlap(inputFiles)
    /\ \E i, j \in DOMAIN inputFiles :
          /\ inputFiles[i].source.type = "file" /\ inputFiles[i].target = <<"d", "a.txt">>
          /\ inputFiles[j].source.type = "dir" /\ inputFiles[j].source.tree # EmptyTree
    /\ FileContents(<<"d", "a.txt">>) = {"hello"}
    /\ FileContents(<<MasterKey>>) = {"quit"}

\* The process wrote only plain lines and ended by itself with status 0.
PrintsAndExits ==
    /\ script # <<>> /\ \A i \in DOMAIN script : script[i] = PlainLine
    /\ exitStatus = {0}

\* stop() has returned after a start() under "exit" that returned.
StoppedAfterExit ==
    /\ wait = "exit" /\ startResult = "returned"
    /\ callerPc = "stopped" /\ stopResult = "returned"

\* C18 (as claimed): with {'a.txt': 'hello'} staged and a process that prints
\* and exits under the "exit" policy, once stop() has returned files('a.txt')
\* names a file holding 'hello' and the error log is empty.
C18_FileAfterStop ==
    (StoppedAfterExit /\ PrintsAndExits) =>
        (FileContents(<<"a.txt">>) = {"hello"} /\ errors = <<>>)

\* C18 (amended): the same, for a working directory that stop() does not remove
\* (one passed by the caller, or one kept by the environment override); with
\* a temporary directory without the override, files('a.txt') names nothing
\* after stop().
C18_KeptFileAfterStop ==
    (StoppedAfterExit /\ PrintsAndExits) =>
        /\ errors = <<>>
        /\ FileContents(<<"a.txt">>) = (IF explicitDir \/ keepEnv THEN {"hello"} ELSE {})

\* C18 witness: stop() has returned and the file is read back from a
\* temporary directory kept by the override.
C18_Witness ==
    /\ StoppedAfterExit /\ PrintsAndExits /\ keepEnv
    /\ FileContents(<<"a.txt">>) = {"hello"}


\* What a call of raise_for_errors() leaves alone: everything but its outcome.
C19_Frame ==
    UNCHANGED <<configVars, stopCount, launches, cleaned, stopTrace, dirVars, procVars,
                readerVars, classifierVars, stoppedOnError, endpointReady, server, quitLog>>

\* The message of the error is the recorded critical message behind its prefix.
C19_Message ==
    raisedMsg' = IF critical THEN "Critical RDFox error: " \o criticalMsg ELSE raisedMsg

\* C19: each call of raise_for_errors(), at the end of start() and at the end
\* of stop(), raises if and only if the critical flag is set at the call,
\* whatever the error log and stopped_on_error hold; the error carries the
\* recorded critical message; and the call changes no state of the runner.
C19_RaiseIffCritical ==
    [][/\ (callerPc = "startCheck" /\ callerPc' # callerPc) =>
            ((startResult' = "raised" <=> critical) /\ C19_Message /\ C19_Frame)
       /\ (callerPc = "stopCheck" /\ callerPc' # callerPc) =>
            ((stopResult' = "raised" <=> critical) /\ C19_Message /\ C19_Frame)]_vars

\* C19 witness: stop() has returned with an error logged and stopped_on_error
\* set, and no critical flag.
C19_Witness ==
    /\ callerPc = "stopped" /\ stopResult = "returned" /\ raisedMsg = ""
    /\ errors # <<>> /\ stoppedOnError /\ ~critical

\* Line i was added to an open block and its trimmed text is the
\* out-of-memory notice.
OutOfMemoryInBlock(i) ==
    /\ ClassifierAfter(SubSeq(script, 1, i - 1)).multiline.active
    /\ StartsWithSpace(script[i])
    /\ Strip(script[i]) = OutOfMemoryText

\* C20: once the callback has returned from a continuation line of an open
\* block whose trimmed text is the out-of-memory notice, the critical flag is
\* set and the critical message is that trimmed line, so raise_for_errors()
\* from then on raises an error with exactly that message; and the line is
\* the last of the block's buffer when the callback returns.
C20_OutOfMemoryInBlock ==
    \A i \in 1..Len(script) :
        (OutOfMemoryInBlock(i) /\ Processed(i)) =>
            /\ critical /\ criticalMsg = OutOfMemoryText
            /\ RaiseForErrors = "raised"
            /\ RaiseMessage = "Critical RDFox error: " \o OutOfMemoryText
            /\ raisedMsg \in {"", RaiseMessage}
               \/ \E j \in 1..(i - 1) : ClassifierAfter(SubSeq(script, 1, j)).critical
            /\ readPos = i =>
                  /\ multiline.active /\ multiline.buf # <<>>
                  /\ multiline.buf[Len(multiline.buf)] = OutOfMemoryText

\* C20 witness: raise_for_errors() has raised with the out-of-memory notice
\* while the block that holds it is still open.
C20_Witness ==
    /\ raisedMsg = "Critical RDFox error: " \o OutOfMemoryText
    /\ multiline.active /\ Len(multiline.buf) = 2
    /\ multiline.buf[2] = OutOfMemoryText


-----------------------------------------------------------------------------

\* The reader takes a line that is not indented while a block is open.
EndsBlock ==
    /\ readPos' = readPos + 1
    /\ multiline.active
    /\ ~StartsWithSpace(script[readPos'])

\* C21: a line that is not indented ends an open block without being
\* consumed by it: the lines of the block, joined, are appended to the error
\* log first, and the same line is then classified as any line is: an error
\* line is appended after the block's entry, a block start opens a new, empty
\* block, a readiness line and a stop-requested line start their branch, the
\* critical marker sets the critical flag; the line is never taken as the
\* critical message.
C21_BlockEndsThenLineClassified ==
    [][EndsBlock =>
        LET line == script[readPos']
            closed == IF multiline.buf = <<>> THEN errors
                      ELSE Append(errors, JoinLines(multiline.buf))
        IN /\ errors' = IF MatchesError(line) THEN Append(closed, Raw(line)) ELSE closed
           /\ multiline' = IF MatchesMultiline(line)
                           THEN [active |-> TRUE, buf |-> <<>>] ELSE NoBlock
           /\ MatchesEndpoint(line) => todo' = EndpointSteps
           /\ IsStopLine(line) => todo' = StopSteps
           /\ IsCriticalMarker(line) => critical'
           /\ criticalMsg' = criticalMsg]_vars

\* C21 witness: a block of one line followed at once by an error line has
\* given two entries, the block's first.
C21_Witness ==
    /\ script = <<BlockStartLine, ContinuationLine, ErrorLine>>
    /\ readPos = 3
    /\ errors = <<Strip(ContinuationLine), Raw(ErrorLine)>>
    /\ ~multiline.active


-----------------------------------------------------------------------------

\* The last line the callback returned from is the critical marker, and it
\* reached the chain of patterns.
MarkerClassified ==
    /\ readPos >= 1
    /\ readerPc = "read"
    /\ IsCriticalMarker(script[readPos])
    /\ Classified(readPos)

\* The reader takes the next line and it becomes the critical message; the
\* callback does nothing else.
CapturedVerbatim ==
    /\ criticalMsg' = Raw(script[readPos'])
    /\ critical'
    /\ todo' = <<>>
    /\ errors' = errors
    /\ multiline' = multiline

\* The reader takes the next line and it goes down the chain of patterns.
ClassifiedAsUsual ==
    LET line == script[readPos']
    IN /\ criticalMsg' = criticalMsg
       /\ errors' = IF MatchesError(line) THEN Append(errors, Raw(line)) ELSE errors
       /\ multiline' = IF MatchesMultiline(line)
                       THEN [active |-> TRUE, buf |-> <<>>] ELSE NoBlock
       /\ MatchesEndpoint(line) => todo' = EndpointSteps
       /\ IsStopLine(line) => todo' = StopSteps

\* C22 (as claimed): once the critical marker was classified outside a
\* block, the critical flag is set, and the next line received, whatever its
\* indentation or content, is recorded verbatim as the critical message and
\* has no other effect.
C22_NextLineCaptured ==
    [][MarkerClassified =>
          /\ critical
          /\ readPos' = readPos + 1 => CapturedVerbatim]_vars

\* C22 (amended): once the critical marker was classified outside a block,
\* the critical flag is set; the next line received is recorded verbatim as
\* the critical message, with no other effect, when no critical message was
\* recorded before; when one was (by an earlier marker, or by the
\* out-of-memory notice inside a block), that message is kept and the next
\* line is classified as any other line.
C22_NextLineCapturedOnce ==
    [][MarkerClassified =>
          /\ critical
          /\ readPos' = readPos + 1 =>
                IF criticalMsg = "" THEN CapturedVerbatim ELSE ClassifiedAsUsual]_vars

\* C22 witness: an indented line after the first marker was recorded with
\* its indentation, and the error line after a second marker went to the
\* error log.
C22_Witness ==
    /\ script = <<CriticalLine, ContinuationLine, CriticalLine, ErrorLine>>
    /\ readPos = 4
    /\ critical
    /\ criticalMsg = Raw(ContinuationLine)
    /\ errors = <<Raw(ErrorLine)>>


-----------------------------------------------------------------------------

\* C23 (as claimed): stop() on a launched runner does not raise because of
\* the exit status of the process: whether the process ended with a positive
\* exit code or with the status of a signal, once stop() has ended,
\* returncode is that status.
C23_StopReportsStatus ==
    (callerPc = "stopped" /\ Launched) =>
        /\ stopResult # "typeError"
        /\ returncode # {}
        /\ returncode = exitStatus


-----------------------------------------------------------------------------

\* A stop() of the launched runner has ended (one that got past the missing
\* self._runner of a runner never started).
StopEnded == callerPc = "stopped" /\ Launched /\ stopCount >= 1

\* C25: sending the quit line never fails its caller.  A stop() that has
\* ended went on, after send_quit, to close the input and to terminate the
\* process, whether the write went through or failed (the process had
\* exited, or an earlier stop() had closed the input); and the reader, once
\* the callback has returned from a stop-requested line whose quit failed
\* (the caller's stop() had closed the input first), has gone on to the end
\* of the branch (on a runner not started a second time: set the gate).
C25_SendQuitNeverFails ==
    /\ stopResult \in {"pending", "returned", "raised", "typeError", "attributeError"}
    /\ StopEnded =>
          /\ Len(stopTrace) >= 3
          /\ SubSeq(stopTrace, 1, 3) = <<"quit", "close", "terminate">>
    /\ (<<"reader", "failed">> \in quitLog /\ readerPc \in {"read", "done"}
           /\ launches = 1) => StopBranchDone

\* C25 witness: a second stop() has ended and returned; the quit of the
\* caller failed, and so did the quit of the reader.
C25_Witness ==
    /\ StopEnded /\ stopCount = 2 /\ stopResult = "returned"
    /\ {<<"caller", "failed">>, <<"reader", "failed">>} \subseteq quitLog


-----------------------------------------------------------------------------

\* wait() gives up: the record of its timeout is logged in this step.
WaitTimedOut == logged' = Append(logged, WaitTimeoutRecord)

\* C24: wait() is a soft wait.  When its timeout runs out before the process
\* has exited, wait() returns normally (the caller goes on into the body, or
\* on to stop()), the process is still running, no signal is sent to it, its
\* input stays open, and nothing of the runner's state changes: no
\* returncode, the working directory and its files, the reader, the counts
\* of launches and stops.
C24_SoftWait ==
    [][WaitTimedOut =>
          /\ callerPc' \in {"body", "exit"}
          /\ proc' = "running" /\ exitStatus' = {}
          /\ ~termSent' /\ ~killSent'
          /\ stdinOpen' /\ stdoutOpen' = stdoutOpen
          /\ returncode' = {} /\ returncode = {}
          /\ UNCHANGED <<dirVars, readerVars, stopCount, launches, cleaned,
                         startResult, stopResult, stopTrace>>]_vars

\* C24 witness: the wait of __enter__ has timed out and the body runs beside a
\* running process that was sent no signal.
C24_Witness ==
    /\ callerPc = "body"
    /\ logged = <<WaitTimeoutRecord>>
    /\ proc = "running" /\ ~termSent /\ ~killSent /\ returncode = {}


-----------------------------------------------------------------------------

\* The body of the with statement runs; __enter__ waited, with no timeout.
BodyAfterWait == callerPc = "body" /\ waitBeforeEnter /\ timeout = "None"

\* C28: with wait_before_enter true and no timeout, the body of the with
\* statement starts only after the process has exited: while the body runs
\* the process has ended by itself, returncode is its exit status, and what
\* the command produced is in the working directory (result.txt, with the
\* content of the a.txt that was staged, once the command has exited with 0).
C28_BodyAfterExit ==
    BodyAfterWait =>
        /\ proc = "exited" /\ ~termSent /\ ~killSent
        /\ returncode # {} /\ returncode = exitStatus
        /\ workingDir \in dirs
        /\ inputFiles # <<>> =>
              /\ returncode = {0}
              /\ FileContents(MoveTarget) = {inputFiles[1].source.data}
              /\ ~Exists(fs, MoveSource)

\* C28 witness: the body runs after a command that moved the file and
\* exited with 0.
C28_Witness ==
    /\ BodyAfterWait
    /\ returncode = {0}
    /\ FileContents(MoveTarget) = {"a"}


-----------------------------------------------------------------------------

\* __exit__ has got past its wait: stop() is about to run, runs or has ended.
PastExitWait == callerPc \notin {"setup", "launch", "started", "body"}

\* C29: with wait_before_exit true and no timeout, __exit__ first waits for
\* the process to exit by itself and only then runs stop(): from there on
\* the process has exited, and no signal is ever sent to it.  When stop() has
\* ended it has returned after all the steps of stop_subprocess and the
\* clean-up, returncode is the exit code of the process itself, 0 or 1, and
\* after an exit code of 0 nothing was logged at level ERROR.
C29_ExitWaitsThenStops ==
    (waitBeforeExit /\ timeout = "None") =>
        /\ ~termSent /\ ~killSent
        /\ PastExitWait => (proc = "exited" /\ exitStatus \in {{0}, {1}})
        /\ callerPc = "stopped" =>
              /\ stopResult = "returned"
              /\ returncode = exitStatus
              /\ stopTrace = Tail(StopOrderExited) \o <<"cleanup">>
              /\ returncode = {0} => logged = <<>>

\* C29 witness: the context was left after a command that exited with 0
\* while the body ran; stop() went through all its steps and logged nothing.
C29_Witness ==
    /\ waitBeforeExit /\ ~waitBeforeEnter /\ timeout = "None"
    /\ callerPc = "stopped" /\ stopResult = "returned"
    /\ returncode = {0} /\ logged = <<>>
    /\ cleaned


-----------------------------------------------------------------------------

\* What the callback is due: every line written, in order, each without its
\* trailing whitespace and with its leading whitespace.
DueLines == [i \in 1..Len(script) |-> Raw(script[i])]

\* C30 (as claimed): the callback is given the lines the process wrote, each
\* once and in the order written, without trailing whitespace and with
\* leading whitespace, and nothing else: what was delivered so far is always
\* the beginning of the lines written; and once the reader has ended, every
\* line written has been delivered.
C30_EveryLineDelivered ==
    /\ Len(delivered) <= Len(script)
    /\ delivered = SubSeq(DueLines, 1, Len(delivered))
    /\ readerPc = "done" => delivered = DueLines


-----------------------------------------------------------------------------

\* The arguments the constructor must refuse.
BadArguments ==
    Reserved(filesArg) \/ waitArg \notin {"None", "endpoint", "exit", "nothing"}

\* C26: a runner constructed with an input file whose target is the reserved
\* name of the master script, or with a wait that is none of the policies,
\* fails at once with ValueError: there is no runner to start, so no policy
\* and no input files are stored, no directory is created and no process is
\* launched.
C26_BadArgumentsRefused ==
    BadArguments =>
        /\ callerPc \in {"new", "valueError"}
        /\ wait = "undefined" /\ inputFiles = <<>>
        /\ endpointReady = "undefined"
        /\ dirs = {} /\ fs = EmptyTree /\ workingDir # "tmp"
        /\ proc = "none" /\ launches = 0

\* C26 witness: the constructor has raised over the reserved target, the
\* policy being a valid one.
C26_Witness ==
    /\ callerPc = "valueError"
    /\ filesArg = <<UserFile, ReservedFile>>
    /\ waitArg = "endpoint"
    /\ dirs = {} /\ proc = "none"

\* "endpoint start" occurs in the script as given: in the string, or in one
\* of the strings of the list (the line breaks that join them are not part
\* of it).
OccursInScript ==
    \E i \in 1..Len(scriptArg.parts) : Contains(scriptArg.parts[i], EndpointStartText)

\* C27: once a runner is constructed, its policy is the one given, if one
\* was given; if none was, it is "endpoint" when the text "endpoint start"
\* occurs anywhere in the script (a list of lines being joined line by line)
\* and "exit" otherwise; and the master script holds the joined text.
C27_PolicyInferred ==
    callerPc \notin {"new", "valueError"} =>
        /\ wait = IF waitArg # "None" THEN waitArg
                  ELSE IF OccursInScript THEN "endpoint" ELSE "exit"
        /\ inputFiles[Len(inputFiles)].target = <<MasterKey>>
        /\ scriptArg.parts = <<<<"endpoint">>, <<"start">>>> =>
              inputFiles[Len(inputFiles)].source.data = "endpoint\nstart"

\* C27 witness: no policy was given and the script, a list, holds "endpoint
\* start" in its first line: start() waits on the readiness gate.
C27_Witness ==
    /\ waitArg = "None"
    /\ scriptArg = ListArg(<<<<"endpoint", " ", "start">>, <<"quit">>>>)
    /\ wait = "endpoint"
    /\ callerPc = "gateWait"
    /\ endpointReady = "clear"


-----------------------------------------------------------------------------

\* start() has raised out of the launch.
LaunchFailed == startResult = "failed"

\* C31: when the launch of the process fails, start() raises at once and the
\* runner holds no process: no Popen object is recorded, no output thread
\* was started (nothing is read or delivered), returncode stays None, and a
\* stop() called afterwards sends no quit line and no signal and waits for
\* nothing: it goes straight to removing the working directory.
C31_LaunchFailureLeavesNoProcess ==
    LaunchFailed =>
        /\ callerPc \in {"started", "stopClose", "stopCleanup", "stopCheck", "stopped"}
        /\ proc = "none" /\ launches = 0
        /\ readerPc = "none" /\ readPos = 0 /\ delivered = <<>>
        /\ returncode = {} /\ exitStatus = {}
        /\ ~termSent /\ ~killSent /\ quitLog = {}
        /\ stopTrace \in {<<>>, <<"cleanup">>}
        /\ logged = <<>>
        /\ callerPc = "stopped" => stopResult = "returned"

\* C31 witness: stop() has returned on a runner whose launch had failed, and
\* has removed the directory the runner made.
C31_Witness ==
    /\ LaunchFailed
    /\ callerPc = "stopped" /\ stopResult = "returned"
    /\ stopTrace = <<"cleanup">>
    /\ workingDir = "None" /\ dirs = {}



\* run_in_dir is over: it returned, or raised the error named.
RunEnded ==
    callerPc \in {"runReturned", "runIoError", "runLaunchError",
                  "runCalledProcessError", "runFileNotFound"}

NewEntries == SubSeq(errors', Len(errors) + 1, Len(errors'))

\* C33: the error log only grows at its end: every step leaves the entries
\* it had where they were; it grows only when the reader takes a line, and
\* then by the entry of the block that line closes, by the line itself if it
\* is a single-line error, or by both in that order.
C33_ErrorLogAppendOnly ==
    [][/\ IsPrefix(errors, errors')
       /\ errors' # errors =>
              /\ readPos' = readPos + 1
              /\ LET line == script[readPos']
                     block == IF multiline.active /\ multiline.buf # <<>>
                              THEN <<JoinLines(multiline.buf)>> ELSE <<>>
                     single == IF MatchesError(line) THEN <<Raw(line)>> ELSE <<>>
                 IN /\ ~StartsWithSpace(line) \/ ~multiline.active
                    /\ NewEntries = block \o single]_vars

\* a block's entry, then the entry of the error line that closed it, then a
\* later error line's
C33_Witness ==
    /\ Len(errors) = 3
    /\ errors[1] = Strip(ContinuationLine)
    /\ errors[2] = Raw(ErrorLine)
    /\ errors[3] = Raw(ErrorLine)
    /\ script = <<BlockStartLine, ContinuationLine, ErrorLine, ErrorLine>>



\* The last line before line i that is not indented: where the block that is
\* open at line i started.
BlockStartBefore(i) ==
    CHOOSE s \in 1..(i - 1) :
        /\ ~StartsWithSpace(script[s])
        /\ \A k \in (s + 1)..(i - 1) : StartsWithSpace(script[k])

\* The entry of the block that line i closes: the lines between its start
\* and line i, trimmed, joined by newlines; none if there is no such line.
BlockEntry(i) ==
    LET s == BlockStartBefore(i)
    IN IF s = i - 1 THEN <<>>
       ELSE <<JoinLines([k \in 1..(i - 1 - s) |-> Strip(script[s + k])])>>

\* C34: a block-start line that reaches the chain of patterns opens an
\* empty block and adds no entry of its own, nor any other event; the line
\* that closes a block appends, before anything of its own, one entry made
\* of the indented lines since the block start, each trimmed, in order,
\* joined by newlines, without the block-start line, and no entry at all if
\* there was no such line.
C34_BlockEntryIsItsContinuationLines ==
    [][readPos' = readPos + 1 =>
          LET i == readPos'
              line == script[i]
              closed == IF multiline.active THEN BlockEntry(i) ELSE <<>>
              single == IF MatchesError(line) THEN <<Raw(line)>> ELSE <<>>
          IN /\ (multiline.active /\ ~StartsWithSpace(line)) =>
                    NewEntries = closed \o single
             /\ (MatchesMultiline(line) /\ Classified(i)) =>
                    /\ NewEntries = closed
                    /\ multiline' = [active |-> TRUE, buf |-> <<>>]
                    /\ todo' = <<>>
                    /\ criticalMsg' = criticalMsg /\ critical' = critical]_vars

\* a block of two lines was closed by a plain line: one entry, both lines
\* trimmed, in order, and nothing of the block start
C34_Witness ==
    /\ script = <<BlockStartLine, ContinuationLine, OutOfMemoryLine, PlainLine>>
    /\ readPos = 4
    /\ errors = <<Strip(ContinuationLine) \o "\n" \o Strip(OutOfMemoryLine)>>
    /\ ~multiline.active



\* The reader takes a single-line error line while no block is open and no
\* critical message is awaited.
ErrorLineOutsideBlock ==
    /\ readPos' = readPos + 1
    /\ MatchesError(script[readPos'])
    /\ ~multiline.active
    /\ ~(critical /\ criticalMsg = "")

\* C35: a single-line error line taken outside a block is appended to the
\* error log as it is and does nothing else: no block is opened, the
\* critical flag and message, stopped_on_error, the Event and the connected
\* endpoint stay as they were, no quit is written and none is pending, the
\* process is not touched, and the reader goes on to the next line.
C35_ErrorLineOnlyAppends ==
    [][ErrorLineOutsideBlock =>
          /\ errors' = Append(errors, Raw(script[readPos']))
          /\ multiline' = multiline
          /\ critical' = critical /\ criticalMsg' = criticalMsg
          /\ stoppedOnError' = stoppedOnError
          /\ endpointReady' = endpointReady /\ server' = server
          /\ quitLog' = quitLog /\ todo' = <<>> /\ readerPc' = "read"
          /\ UNCHANGED <<procVars, callerVars, dirVars>>]_vars

\* the error line was taken while the caller waited for the endpoint, which
\* it still does, with the process running
C35_Witness ==
    /\ readPos >= 1 /\ readerPc = "read"
    /\ MatchesError(script[readPos])
    /\ errors = <<Raw(script[readPos])>>
    /\ callerPc = "gateBlocked" /\ endpointReady = "clear"
    /\ proc = "running" /\ quitLog = {} /\ ~stoppedOnError



\* The caller is between calls, or at the raise_for_errors() that ends
\* start() or stop().
CallerObserves == callerPc \in {"started", "startCheck", "stopCheck", "stopped"}

\* C36 (as claimed): wherever the caller can observe the runner, a set
\* critical flag comes with a critical message that is not empty, and no
\* error is ever raised whose message is the bare prefix.
C36_CriticalHasMessage ==
    /\ (CallerObserves /\ critical) => criticalMsg # ""
    /\ raisedMsg # "Critical RDFox error: "



\* The with statement over a CommandRunner is over: __exit__ has returned or
\* raised, or __enter__ raised.
WithEnded ==
    \/ callerPc = "stopped"
    \/ callerPc = "started" /\ startResult # "returned"

\* C37 (as claimed): however the with statement ends, the process does not
\* run any more and the directory the runner made is gone.
C37_ContextAlwaysCleansUp ==
    WithEnded =>
        /\ proc # "running"
        /\ workingDir \notin dirs



\* start() has returned normally under the "endpoint" policy.
ReturnedUnderEndpoint == wait = "endpoint" /\ StartReturned

\* C38 (as claimed): under the "endpoint" policy, whenever start() has
\* returned normally, the endpoint is connected.
C38_ReturnsConnected == ReturnedUnderEndpoint => server # "None"

\* C38 (amended): under the "endpoint" policy, whenever start() has returned
\* normally, either the endpoint is connected, to the port of a readiness
\* line the callback has returned from, or the Event was set by a
\* stop-requested line and stopped_on_error is true; the critical flag was
\* not seen set.
C38_ReturnsConnectedOrStopped ==
    ReturnedUnderEndpoint =>
        /\ server = "None" =>
               /\ stoppedOnError
               /\ \E i \in 1..Len(script) :
                     IsStopLine(script[i]) /\ Classified(i) /\ Processed(i)
        /\ server # "None" =>
               \E i \in 1..Len(script) :
                   /\ MatchesEndpoint(script[i])
                   /\ server = "http://localhost:" \o script[i].tail
        /\ endpointReady = "set"

\* start() returned normally on a stop-requested line alone: the endpoint
\* handed to the caller is not connected
C38_Witness ==
    /\ ReturnedUnderEndpoint
    /\ server = "None" /\ stoppedOnError /\ ~critical
    /\ launches = 1 /\ stopCount = 0

=============================================================================
